---- MODULE Spec2Model ----
(***************************************************************************)
(* Model of src/data/process_musicbrainz.py: the curation pipeline of      *)
(* MusicbrainzProcessor (tree loading, scoring, filtering, cross-work      *)
(* deduplication, composer gate, assembly).                                 *)
(*                                                                         *)
(* Conventions.                                                            *)
(*  - A Python Optional value is a sequence: <<>> is None, <<v>> is v.      *)
(*  - A Python dict (insertion ordered) is a sequence of entries            *)
(*    [key |-> k, works |-> list], in insertion order.                      *)
(*  - Floats are fixed point: popularity and WSS in units of 1/10000       *)
(*    ("e4"), stored scores (round(x, 2)) in units of 1/100 ("centi").      *)
(*  - begin_year/end_year, recording gid and isrc are carried through by    *)
(*    the code unread; they are left out of the records.                    *)
(***************************************************************************)
EXTENDS Integers, Sequences, FiniteSets, TLC

VARIABLES
    pc,                     \* position in process() / in the call under check
    composers,              \* self.composers (parsed forest)
    stats,                  \* self.stats (Counter)
    unresolved_work_candidates, \* self.unresolved_work_candidates
    composers_by_birth_year,\* process(): result of the birth-year filter
    work_candidates,        \* process(): result of _generate_work_candidates
    works_by_type,          \* process(): result of _group_works_by_type
    works_after_wss,        \* process(): result of _filter_works_by_wss
    works_after_cleanup,    \* process(): works_after_wss as reassigned by _filter_works_cleanup
    deezer_to_work_gid,     \* _filter_works_cleanup: the track-claim map it built
    works_after_recleanup,  \* _filter_works_cleanup applied to its own output
    final_composers,        \* process(): result of _filter_final_composers
    final_works,            \* process(): the synchronised category map
    unresolved_log,         \* the content of unresolved_types.txt, None while not written
    call,                   \* the arguments of a single method called on its own
    ret                     \* what that method returned and left in the object

vars == <<pc, composers, stats, unresolved_work_candidates, composers_by_birth_year,
          work_candidates, works_by_type, works_after_wss, works_after_cleanup,
          deezer_to_work_gid, works_after_recleanup, final_composers, final_works,
          unresolved_log, call, ret>>

----------------------------------------------------------------------------
(* Python values *)

None == <<>>
Some(v) == <<v>>

----------------------------------------------------------------------------
(* Configuration constants *)

MIN_WORKS_PER_COMPOSER == 2
MIN_BIRTH_YEAR == 1400
MIN_RECORDINGS_PER_PART == 3
\* MINIMUM_WSS = 2.3, in centi (the unit of a stored score)
MINIMUM_WSS == 230
\* POPULARITY_ALPHA = 0.5 as the fraction ALPHA_NUM / ALPHA_DEN
ALPHA_NUM == 1
ALPHA_DEN == 2
\* DYNAMIC_PART_SCORE_FILTER; the WSS anchors in e4, the scores in score points
WSS_LOWER_BOUND == MINIMUM_WSS * 100
WSS_UPPER_BOUND == 60000
PART_SCORE_AT_LOWER_WSS == 95
PART_SCORE_AT_UPPER_WSS == 75
\* _select_deezer_ids(recordings, max_ids=5)
MAX_IDS == 5

CHOPIN_GID == "09ff1fe8-d61c-4b98-bb82-18487c74d7b7"

TYPE_MAPPING ==
    [t \in {"Aria", "Song", "Song-cycle", "Madrigal", "Mass", "Cantata", "Oratorio", "Motet",
             "Vocal", "Opera", "Operetta", "Zarzuela", "Ballet", "Incidental music",
             "Symphony", "Symphonic poem", "Overture", "Suite", "Orchestral", "Concerto",
             "Chamber", "Quartet", "Sonata", "Partita"} |->
        CASE t \in {"Aria", "Song", "Song-cycle", "Madrigal", "Mass", "Cantata", "Oratorio",
                    "Motet", "Vocal"} -> "vocal"
          [] t \in {"Opera", "Operetta", "Zarzuela"} -> "opera"
          [] t = "Ballet" -> "ballet"
          [] t \in {"Incidental music", "Symphony", "Symphonic poem", "Overture", "Suite",
                    "Orchestral"} -> "orchestral"
          [] t = "Concerto" -> "concerto"
          [] t \in {"Chamber", "Quartet"} -> "chamber"
          [] OTHER -> "other"]

\* The work names of the model, and for each KEYWORD_RULES entry (top to bottom) the
\* names its pattern matches under re.search(pattern, name, re.IGNORECASE) and its category.
WorkNames ==
    {"Piano Sonata No. 14", "Symphony No. 5", "Nocturne", "Swan Lake", "Ave Maria",
     "Concerto for Piano"}

KEYWORD_RULES ==
    << [matches |-> {}, category |-> "opera"],
       [matches |-> {"Swan Lake"}, category |-> "ballet"],
       [matches |-> {}, category |-> "vocal"],
       [matches |-> {"Ave Maria"}, category |-> "vocal"],
       [matches |-> {"Ave Maria"}, category |-> "vocal"],
       [matches |-> {}, category |-> "vocal"],
       [matches |-> {"Concerto for Piano"}, category |-> "concerto"],
       [matches |-> {"Symphony No. 5"}, category |-> "orchestral"],
       [matches |-> {}, category |-> "orchestral"],
       [matches |-> {}, category |-> "orchestral"],
       [matches |-> {}, category |-> "chamber"],
       [matches |-> {}, category |-> "chamber"],
       [matches |-> {}, category |-> "chamber"],
       [matches |-> {}, category |-> "chamber"],
       [matches |-> {}, category |-> "chamber"],
       [matches |-> {"Piano Sonata No. 14"}, category |-> "piano"],
       [matches |-> {"Concerto for Piano"}, category |-> "piano"],
       [matches |-> {}, category |-> "piano"],
       [matches |-> {}, category |-> "piano"],
       [matches |-> {}, category |-> "piano"],
       [matches |-> {}, category |-> "piano"] >>

\* "Piano Sonata" in work.name
ContainsPianoSonata(name) == name = "Piano Sonata No. 14"

LABEL_PREFERENCE ==
    <<"Deutsche Grammophon", "EMI", "Decca", "Hyperion", "Chandos", "Universal", "Philips">>

\* pref.lower() in label.lower(), over the record labels of the model:
\* "Decca", "EMI Classics", "Naxos"
LabelContains(label, pref) ==
    \/ label = "Decca" /\ pref = "Decca"
    \/ label = "EMI Classics" /\ pref = "EMI"

EXCLUDED_COMPOSERS ==
    {"Gruber, Franz Xaver", "Pierpont, James Lord", "Ellington, Duke", "Coltrane, John",
     "Tizol, Juan", "Gilmour, David", "Mason, Nick", "Waters, Roger", "Wright, Richard",
     "Young, Neil", "McLaughlin, John", "Townshend, Pete", "Wakeman, Rick", "Gardel, Carlos",
     "Vangelis", "Morricone, Ennio", "Emerson, Keith", "Strayhorn, Billy",
     "Ibrahim, Abdullah", "Cherry, Don", "Cale, John", "Handy, William Christopher",
     "Johnson, James P.", "Anderson, Leroy", "Goldsmith, Jerry", "Newman, Randy",
     "Jarre, Maurice", "Mills, Irving", "Foster, Stephen", "Willis, Wallace"}

\* the set loaded from the file 'excluded_deezer_ids'
EXCLUDED_DEEZER_IDS == {99}

EXCLUDED_WORKS ==
    {"bf57c435-6ce0-3d57-ab04-e2a9179b178c", "8531b357-339e-3cc7-9ed2-0d6b928ed12e",
     "bc0cdd41-eaa3-3330-b972-8e8174b9e64d", "718b96fa-75eb-436e-8c30-0c647aa99696"}

\* WSS_OVERRIDES, values in e4
WSS_OVERRIDES ==
    ("11f48c5e-5ee9-4646-9826-fb7c2fccce7f" :> 54000) @@
    ("bcc558d9-b9d5-39cd-b599-df5a988b9eee" :> 25000) @@
    ("300dc2e7-fd2c-48c5-bbdc-29553afa56da" :> 35000) @@
    ("15649d4e-2dd2-4211-84bc-f5d2d316203a" :> 40000)

\* math.log(1 + n) in e4, n = 1..60 (math.log(1) = 0)
LnTable ==
    <<6931, 10986, 13863, 16094, 17918, 19459, 20794, 21972, 23026, 23979, 24849, 25649,
      26391, 27081, 27726, 28332, 28904, 29444, 29957, 30445, 30910, 31355, 31781, 32189,
      32581, 32958, 33322, 33673, 34012, 34340, 34657, 34965, 35264, 35553, 35835, 36109,
      36376, 36636, 36889, 37136, 37377, 37612, 37842, 38067, 38286, 38501, 38712, 38918,
      39120, 39318, 39512, 39703, 39890, 40073, 40254, 40431, 40604, 40775, 40943, 41109>>

Log1p(n) == IF n = 0 THEN 0 ELSE LnTable[n]

\* round(num / den) for num >= 0, den > 0
RoundDiv(num, den) == (2 * num + den) \div (2 * den)

----------------------------------------------------------------------------
(* self.stats: a Counter; a missing key reads 0 *)

StatKeys ==
    {"initial_composers", "composers_dropped_birth_year", "total_root_works_considered",
     "parts_dropped_min_recordings", "parts_dropped_no_deezerid",
     "parts_dropped_by_dynamic_score", "works_dropped_became_empty",
     "works_dropped_by_min_wss", "composers_dropped_min_works", "final_composers",
     "works_dropped_multiple_composers", "works_dropped_duplicates",
     "parts_dropped_cross_work_duplicate", "parts_dropped_duplicate_deezer",
     "works_dropped_empty_after_deezer_dedup"}

EmptyStats == [k \in StatKeys |-> 0]

StatAdd(st, k, n) == [st EXCEPT ![k] = @ + n]
StatSet(st, k, n) == [st EXCEPT ![k] = n]

----------------------------------------------------------------------------
(* Category maps: Dict[str, List[FinalWork]] *)

\* [w for works in m.values() for w in works]
RECURSIVE MapWorks(_)
MapWorks(m) ==
    IF m = <<>> THEN <<>> ELSE Head(m).works \o MapWorks(Tail(m))

MapKeys(m) == {m[i].key : i \in DOMAIN m}

\* m.get(k, [])
MapGet(m, k) ==
    IF k \in MapKeys(m)
    THEN (CHOOSE e \in {m[i] : i \in DOMAIN m} : e.key = k).works
    ELSE <<>>

SeqToSet(s) == {s[i] : i \in DOMAIN s}

\* the track identifiers of a work's parts
RECURSIVE PartsTracks(_)
PartsTracks(parts) ==
    IF parts = <<>> THEN {} ELSE SeqToSet(Head(parts).deezer) \cup PartsTracks(Tail(parts))

----------------------------------------------------------------------------
(* Tree Loader: _parse_input_data, _parse_work_tree *)

\* Python truthiness of an Optional[str] and of an Optional[int]
TruthyStr(opt) == opt # None /\ opt # Some("")
TruthyInt(opt) == opt # None /\ opt # Some(0)

\* work_dict.get("type", parent_type or "Unknown"); a raw work's "type" is
\* [present |-> whether the key is in the dict, val |-> its (Optional) value]
ResolveType(raw_type, parent_type) ==
    IF raw_type.present THEN raw_type.val
    ELSE IF TruthyStr(parent_type) THEN parent_type ELSE Some("Unknown")

RECURSIVE ParseWorkTree(_, _)
ParseWorkTree(work_dict, parent_type) ==
    LET current_type == ResolveType(work_dict.type, parent_type)
    IN  [gid |-> work_dict.gid,
         name |-> work_dict.name,
         type |-> current_type,
         recordings |-> work_dict.recordings,
         subworks |-> [i \in DOMAIN work_dict.subworks |->
                          ParseWorkTree(work_dict.subworks[i], current_type)],
         total_recordings_count |-> 0,
         total_subworks_count |-> 0]

ParseInputData(raw_data) ==
    [i \in DOMAIN raw_data |->
        [gid |-> raw_data[i].gid,
         name |-> raw_data[i].name,
         birth_year |-> raw_data[i].birth_year,
         works |-> [j \in DOMAIN raw_data[i].works |->
                       ParseWorkTree(raw_data[i].works[j], None)]]]

----------------------------------------------------------------------------
(* Tree Reducer: _calculate_recursive_counts, _filter_and_flatten_tree *)

RECURSIVE SumSeq(_)
SumSeq(s) == IF s = <<>> THEN 0 ELSE Head(s) + SumSeq(Tail(s))

RECURSIVE MaxSeq(_)
MaxSeq(s) ==
    IF Len(s) = 1 THEN Head(s)
    ELSE LET m == MaxSeq(Tail(s)) IN IF Head(s) >= m THEN Head(s) ELSE m

RECURSIVE Concat(_)
Concat(ss) == IF ss = <<>> THEN <<>> ELSE Head(ss) \o Concat(Tail(ss))

\* "work.total_recordings_count = rec_count": an internal node's own recordings left out
RECURSIVE CountsWithoutOwnRecordings(_)
CountsWithoutOwnRecordings(work) ==
    IF work.subworks = <<>>
    THEN [work EXCEPT !.total_recordings_count = Len(work.recordings),
                      !.total_subworks_count = 0]
    ELSE LET subs == [i \in DOMAIN work.subworks |-> CountsWithoutOwnRecordings(work.subworks[i])]
             rec_count == SumSeq([i \in DOMAIN subs |-> subs[i].total_recordings_count])
             sub_count == SumSeq([i \in DOMAIN subs |-> 1 + subs[i].total_subworks_count])
         IN  [work EXCEPT !.subworks = subs,
                          !.total_recordings_count = rec_count,
                          !.total_subworks_count = Len(work.subworks) + sub_count]

\* the work tree as _calculate_recursive_counts leaves it (it annotates in place)
RECURSIVE CalculateRecursiveCounts(_)
CalculateRecursiveCounts(work) ==
    IF work.subworks = <<>>
    THEN [work EXCEPT !.total_recordings_count = Len(work.recordings),
                      !.total_subworks_count = 0]
    ELSE LET subs == [i \in DOMAIN work.subworks |-> CalculateRecursiveCounts(work.subworks[i])]
             rec_count == SumSeq([i \in DOMAIN subs |-> subs[i].total_recordings_count])
             sub_count == SumSeq([i \in DOMAIN subs |-> 1 + subs[i].total_subworks_count])
         IN  [work EXCEPT !.subworks = subs,
                          !.total_recordings_count = Len(work.recordings) + rec_count,
                          !.total_subworks_count = Len(work.subworks) + sub_count]

\* a flattening that never promotes an internal node
RECURSIVE FlattenWithoutPromotion(_)
FlattenWithoutPromotion(work) ==
    IF work.subworks = <<>>
    THEN IF Len(work.recordings) >= MIN_RECORDINGS_PER_PART
         THEN [leafs |-> <<work>>, dropped |-> 0]
         ELSE [leafs |-> <<>>, dropped |-> 1]
    ELSE LET rs == [i \in DOMAIN work.subworks |-> FlattenWithoutPromotion(work.subworks[i])]
         IN  [leafs |-> Concat([i \in DOMAIN rs |-> rs[i].leafs]),
              dropped |-> SumSeq([i \in DOMAIN rs |-> rs[i].dropped])]

\* [leafs: the returned list, dropped: what it adds to parts_dropped_min_recordings]
RECURSIVE FilterAndFlattenTree(_)
FilterAndFlattenTree(work) ==
    IF work.subworks = <<>>
    THEN IF Len(work.recordings) >= MIN_RECORDINGS_PER_PART
         THEN [leafs |-> <<work>>, dropped |-> 0]
         ELSE [leafs |-> <<>>, dropped |-> 1]
    ELSE LET rs == [i \in DOMAIN work.subworks |-> FilterAndFlattenTree(work.subworks[i])]
             filtered_leafs == Concat([i \in DOMAIN rs |-> rs[i].leafs])
             dropped == SumSeq([i \in DOMAIN rs |-> rs[i].dropped])
         IN  IF filtered_leafs = <<>> /\ Len(work.recordings) >= MIN_RECORDINGS_PER_PART
             THEN [leafs |-> <<work>>, dropped |-> dropped]
             ELSE [leafs |-> filtered_leafs, dropped |-> dropped]

----------------------------------------------------------------------------
(* Track Selector: _select_deezer_ids *)

Min(a, b) == IF a <= b THEN a ELSE b

\* math.ceil(n / 2)
CeilHalf(n) == (n + 1) \div 2

SetMax(S) == CHOOSE x \in S : \A y \in S : y <= x

\* list.sort(key=len(name), reverse=True): stable, longest name first
RECURSIVE SortByNameLen(_)
SortByNameLen(recs) ==
    IF recs = <<>> THEN <<>>
    ELSE LET longest == SetMax({Len(recs[i].name) : i \in DOMAIN recs})
         IN  SelectSeq(recs, LAMBDA r : Len(r.name) = longest)
                 \o SortByNameLen(SelectSeq(recs, LAMBDA r : Len(r.name) # longest))

\* the loop without its "not in selected_ids" test
RECURSIVE AppendIdsWithRepeats(_, _, _)
AppendIdsWithRepeats(selected, recs, max_to_select) ==
    IF recs = <<>> \/ Len(selected) >= max_to_select THEN selected
    ELSE AppendIdsWithRepeats(Append(selected, Head(recs).deezerId[1]),
                              Tail(recs), max_to_select)

\* "for rec in recs: if rec.deezerId not in selected_ids: append it;
\*  if len(selected_ids) >= max_to_select: return selected_ids"
RECURSIVE AppendIds(_, _, _)
AppendIds(selected, recs, max_to_select) ==
    IF recs = <<>> \/ Len(selected) >= max_to_select THEN selected
    ELSE AppendIds(IF Head(recs).deezerId[1] \notin SeqToSet(selected)
                   THEN Append(selected, Head(recs).deezerId[1]) ELSE selected,
                   Tail(recs), max_to_select)

\* the loop over LABEL_PREFERENCE (lines 738-743)
RECURSIVE SelectPreferred(_, _, _, _)
SelectPreferred(selected, prefs, with_labels, max_to_select) ==
    IF prefs = <<>> \/ Len(selected) >= max_to_select THEN selected
    ELSE SelectPreferred(
             AppendIds(selected,
                       SelectSeq(with_labels, LAMBDA r : LabelContains(r.label[1], Head(prefs))),
                       max_to_select),
             Tail(prefs), with_labels, max_to_select)

SelectDeezerIds(recordings) ==
    LET usable == SelectSeq(recordings,
                            LAMBDA r : r.deezerId # None /\ r.deezerId[1] \notin EXCLUDED_DEEZER_IDS)
    IN  IF usable = <<>> THEN <<>>
        ELSE LET max_to_select == Min(MAX_IDS, CeilHalf(Len(usable)))
                 sorted == SortByNameLen(usable)
                 with_labels == SelectSeq(sorted, LAMBDA r : TruthyStr(r.label))
                 s1 == SelectPreferred(<<>>, LABEL_PREFERENCE, with_labels, max_to_select)
                 s2 == AppendIds(s1, with_labels, max_to_select)
             IN  AppendIds(s2, sorted, max_to_select)

----------------------------------------------------------------------------
(* Dynamic Part Filter: _get_dynamic_part_score_threshold *)

\* the interpolation without "if work_wss >= upper_wss: return upper_score"
DynamicPartScoreThresholdNoUpperClamp(work_wss) ==
    IF work_wss <= WSS_LOWER_BOUND THEN [num |-> PART_SCORE_AT_LOWER_WSS, den |-> 1]
    ELSE [num |-> PART_SCORE_AT_LOWER_WSS * (WSS_UPPER_BOUND - WSS_LOWER_BOUND)
                    + (work_wss - WSS_LOWER_BOUND)
                        * (PART_SCORE_AT_UPPER_WSS - PART_SCORE_AT_LOWER_WSS),
          den |-> WSS_UPPER_BOUND - WSS_LOWER_BOUND]

\* the threshold as the fraction num / den of score points, for a WSS in e4
DynamicPartScoreThreshold(work_wss) ==
    IF work_wss <= WSS_LOWER_BOUND THEN [num |-> PART_SCORE_AT_LOWER_WSS, den |-> 1]
    ELSE IF work_wss >= WSS_UPPER_BOUND THEN [num |-> PART_SCORE_AT_UPPER_WSS, den |-> 1]
    ELSE LET wss_range == WSS_UPPER_BOUND - WSS_LOWER_BOUND
             score_range == PART_SCORE_AT_UPPER_WSS - PART_SCORE_AT_LOWER_WSS
         IN  [num |-> PART_SCORE_AT_LOWER_WSS * wss_range
                        + (work_wss - WSS_LOWER_BOUND) * score_range,
              den |-> wss_range]

\* no part is ever below the threshold
MeetsThresholdAlways(score, threshold) == TRUE

\* p.score >= dynamic_threshold, for a part score in centi
MeetsThreshold(score, threshold) == score * threshold.den >= 100 * threshold.num

----------------------------------------------------------------------------
(* Taxonomy Classifier: _transform_type *)

RECURSIVE FirstKeywordRule(_, _)
FirstKeywordRule(rules, name) ==
    IF rules = <<>> THEN None
    ELSE IF name \in Head(rules).matches THEN Some(Head(rules).category)
    ELSE FirstKeywordRule(Tail(rules), name)

\* the keyword rules consulted before the type mapping
TransformTypeKeywordsFirst(work, composer_gid) ==
    IF composer_gid = CHOPIN_GID /\ work.type = Some("Unknown")
    THEN [category |-> "piano", unresolved |-> FALSE]
    ELSE IF ContainsPianoSonata(work.name) /\ work.type = Some("Sonata")
    THEN [category |-> "piano", unresolved |-> FALSE]
    ELSE LET hit == FirstKeywordRule(KEYWORD_RULES, work.name)
         IN  IF hit # None THEN [category |-> hit[1], unresolved |-> FALSE]
             ELSE IF work.type # None /\ work.type[1] \in DOMAIN TYPE_MAPPING
                     /\ TYPE_MAPPING[work.type[1]] # "other"
             THEN [category |-> TYPE_MAPPING[work.type[1]], unresolved |-> FALSE]
             ELSE [category |-> "other", unresolved |-> TRUE]

\* [category: the returned category, unresolved: whether the work is recorded in
\*  self.unresolved_work_candidates]
TransformType(work, composer_gid) ==
    IF composer_gid = CHOPIN_GID /\ work.type = Some("Unknown")
    THEN [category |-> "piano", unresolved |-> FALSE]
    ELSE IF ContainsPianoSonata(work.name) /\ work.type = Some("Sonata")
    THEN [category |-> "piano", unresolved |-> FALSE]
    ELSE IF work.type # None /\ work.type[1] \in DOMAIN TYPE_MAPPING
            /\ TYPE_MAPPING[work.type[1]] # "other"
    THEN [category |-> TYPE_MAPPING[work.type[1]], unresolved |-> FALSE]
    ELSE LET hit == FirstKeywordRule(KEYWORD_RULES, work.name)
         IN  IF hit # None THEN [category |-> hit[1], unresolved |-> FALSE]
             ELSE [category |-> "other", unresolved |-> TRUE]

\* self.unresolved_work_candidates[name] = message (the message is the name and the type)
DictPut(d, k, v) == [x \in DOMAIN d \cup {k} |-> IF x = k THEN v ELSE d[x]]

----------------------------------------------------------------------------
(* Significance Scorer: _generate_work_candidates *)

\* avg_pss = sum(pss_values) / len(pss_values), in e4
AvgPss(pss_values) == SumSeq(pss_values) \div Len(pss_values)

\* "alpha * avg_pss + (1 - alpha) * max_pss": the two weights exchanged
WeightedWssSwapped(pss_values, alpha_num, alpha_den) ==
    LET n == Len(pss_values)
    IN  (alpha_num * SumSeq(pss_values) + (alpha_den - alpha_num) * MaxSeq(pss_values) * n)
            \div (alpha_den * n)

\* (1 - alpha) * avg_pss + alpha * max_pss in e4, for the weight alpha_num / alpha_den
WeightedWss(pss_values, alpha_num, alpha_den) ==
    LET n == Len(pss_values)
    IN  ((alpha_den - alpha_num) * SumSeq(pss_values) + alpha_num * MaxSeq(pss_values) * n)
            \div (alpha_den * n)

\* line 457 with the module's POPULARITY_ALPHA
ComputeWss(pss_values) == WeightedWss(pss_values, ALPHA_NUM, ALPHA_DEN)

\* a score relative to twice the maximum
PartScoreHalved(pss, max_pss) == IF max_pss > 0 THEN RoundDiv(pss * 5000, max_pss) ELSE 0

\* round((pss / max_pss) * 100, 2) in centi
PartScore(pss, max_pss) == IF max_pss > 0 THEN RoundDiv(pss * 10000, max_pss) ELSE 0

\* the loop of lines 462-475: potential_parts
RECURSIVE PotentialParts(_, _)
PotentialParts(leaf_parts, max_pss) ==
    IF leaf_parts = <<>> THEN <<>>
    ELSE LET part == Head(leaf_parts)
             deezer_ids == SelectDeezerIds(part.recordings)
         IN  (IF deezer_ids # <<>>
              THEN <<[name |-> part.name,
                      deezer |-> deezer_ids,
                      score |-> PartScore(Log1p(Len(part.recordings)), max_pss)]>>
              ELSE <<>>) \o PotentialParts(Tail(leaf_parts), max_pss)

\* the body of the loop over composer.works (lines 442-504) for one root work;
\* acc carries all_works, self.stats and self.unresolved_work_candidates
CandidateForRootWork(acc, composer, root_work) ==
    LET flat == FilterAndFlattenTree(root_work)
        leaf_parts == flat.leafs
        st0 == StatAdd(StatAdd(acc.stats, "total_root_works_considered", 1),
                       "parts_dropped_min_recordings", flat.dropped)
    IN  IF leaf_parts = <<>> THEN [acc EXCEPT !.stats = st0]
        ELSE
        LET pss_values == [i \in DOMAIN leaf_parts |-> Log1p(Len(leaf_parts[i].recordings))]
            max_pss == MaxSeq(pss_values)
            wss == ComputeWss(pss_values)
            dynamic_threshold == DynamicPartScoreThreshold(wss)
            potential_parts == PotentialParts(leaf_parts, max_pss)
            final_parts == SelectSeq(potential_parts,
                                     LAMBDA p : MeetsThreshold(p.score, dynamic_threshold))
            st1 == StatAdd(StatAdd(st0, "parts_dropped_no_deezerid",
                                   Len(leaf_parts) - Len(potential_parts)),
                           "parts_dropped_by_dynamic_score",
                           Len(potential_parts) - Len(final_parts))
        IN  IF final_parts = <<>>
            THEN [acc EXCEPT !.stats = IF potential_parts # <<>>
                                       THEN StatAdd(st1, "works_dropped_became_empty", 1)
                                       ELSE st1]
            ELSE LET stored_wss == IF root_work.gid \in DOMAIN WSS_OVERRIDES
                                   THEN WSS_OVERRIDES[root_work.gid] ELSE wss
                     tt == TransformType(root_work, composer.gid)
                 IN  [all_works |-> Append(acc.all_works,
                                           [gid |-> root_work.gid,
                                            composer |-> composer.gid,
                                            name |-> root_work.name,
                                            type |-> tt.category,
                                            score |-> RoundDiv(stored_wss, 100),
                                            parts |-> final_parts]),
                      stats |-> st1,
                      unresolved |-> IF tt.unresolved
                                     THEN DictPut(acc.unresolved, root_work.name, root_work.type)
                                     ELSE acc.unresolved]

RECURSIVE CandidatesForWorks(_, _, _)
CandidatesForWorks(acc, composer, works) ==
    IF works = <<>> THEN acc
    ELSE CandidatesForWorks(CandidateForRootWork(acc, composer, Head(works)), composer, Tail(works))

RECURSIVE CandidatesForComposers(_, _)
CandidatesForComposers(acc, cs) ==
    IF cs = <<>> THEN acc
    ELSE CandidatesForComposers(CandidatesForWorks(acc, Head(cs), Head(cs).works), Tail(cs))

\* [all_works: the returned list, stats, unresolved: the processor's fields afterwards]
GenerateWorkCandidates(cs, st, unresolved) ==
    CandidatesForComposers([all_works |-> <<>>, stats |-> st, unresolved |-> unresolved], cs)

\* the forest as the calls of _calculate_recursive_counts leave it
AnnotateCounts(cs) ==
    [i \in DOMAIN cs |->
        [cs[i] EXCEPT !.works = [j \in DOMAIN cs[i].works |->
                                    CalculateRecursiveCounts(cs[i].works[j])]]]

----------------------------------------------------------------------------
(* _filter_works_cleanup *)

\* gid_to_composers[gid]
GidToComposers(flat, gid) ==
    {flat[i].composer : i \in {j \in DOMAIN flat : flat[j].gid = gid}}

\* "len(composers) > 2" for "len(composers) > 1"
GidsWithMoreThanTwoComposers(flat) ==
    {g \in {flat[i].gid : i \in DOMAIN flat} : Cardinality(GidToComposers(flat, g)) > 2}

GidsWithMultipleComposers(flat) ==
    {g \in {flat[i].gid : i \in DOMAIN flat} : Cardinality(GidToComposers(flat, g)) > 1}

\* for deezer_id in part.deezer: if deezer_id not in deezer_to_work_gid: ...
RECURSIVE ClaimIds(_, _, _)
ClaimIds(map, ids, gid) ==
    IF ids = <<>> THEN map
    ELSE ClaimIds(IF Head(ids) \in DOMAIN map THEN map ELSE map @@ (Head(ids) :> gid),
                  Tail(ids), gid)

RECURSIVE ClaimParts(_, _, _)
ClaimParts(map, parts, gid) ==
    IF parts = <<>> THEN map
    ELSE ClaimParts(ClaimIds(map, Head(parts).deezer, gid), Tail(parts), gid)

\* the loop of lines 586-594 over the works in iteration order
RECURSIVE ClaimWorks(_, _, _)
ClaimWorks(map, flat, multi) ==
    IF flat = <<>> THEN map
    ELSE ClaimWorks(IF Head(flat).gid \in multi THEN map
                    ELSE ClaimParts(map, Head(flat).parts, Head(flat).gid),
                    Tail(flat), multi)

EmptyMap == [x \in {} |-> None]

\* deezer_to_work_gid.get(deezer_id) == gid
OwnedBy(map, id, gid) == id \in DOMAIN map /\ map[id] = gid

\* the strip left out: a kept part keeps all its identifiers
KeepOwnedNoStrip(map, ids, gid) == ids

\* the comparison inverted: a kept part keeps the identifiers of the other works
KeepOwnedInverted(map, ids, gid) == SelectSeq(ids, LAMBDA id : ~ OwnedBy(map, id, gid))

KeepOwned(map, ids, gid) == SelectSeq(ids, LAMBDA id : OwnedBy(map, id, gid))

\* lines 613-624: [kept parts (stripped), number of parts dropped]
RECURSIVE FilterParts(_, _, _)
FilterParts(map, parts, gid) ==
    IF parts = <<>> THEN [parts |-> <<>>, dropped |-> 0]
    ELSE LET p == Head(parts)
             rest == FilterParts(map, Tail(parts), gid)
         IN  IF \E i \in DOMAIN p.deezer : OwnedBy(map, p.deezer[i], gid)
             THEN [parts |-> <<[p EXCEPT !.deezer = KeepOwned(map, p.deezer, gid)]>> \o rest.parts,
                   dropped |-> rest.dropped]
             ELSE [parts |-> rest.parts, dropped |-> rest.dropped + 1]

\* seen_deezer also takes the identifiers of the parts that are dropped
RECURSIVE DedupPartsSeenAll(_, _)
DedupPartsSeenAll(parts, seen_deezer) ==
    IF parts = <<>> THEN [parts |-> <<>>, dropped |-> 0]
    ELSE LET p == Head(parts)
             rest == DedupPartsSeenAll(Tail(parts), seen_deezer \cup SeqToSet(p.deezer))
         IN  IF ~ \E i \in DOMAIN p.deezer : p.deezer[i] \in seen_deezer
             THEN [parts |-> <<p>> \o rest.parts, dropped |-> rest.dropped]
             ELSE [parts |-> rest.parts, dropped |-> rest.dropped + 1]

\* lines 627-636: [kept parts, number of parts dropped]
RECURSIVE DedupParts(_, _)
DedupParts(parts, seen_deezer) ==
    IF parts = <<>> THEN [parts |-> <<>>, dropped |-> 0]
    ELSE LET p == Head(parts) IN
         IF ~ \E i \in DOMAIN p.deezer : p.deezer[i] \in seen_deezer
         THEN LET rest == DedupParts(Tail(parts), seen_deezer \cup SeqToSet(p.deezer))
              IN  [parts |-> <<p>> \o rest.parts, dropped |-> rest.dropped]
         ELSE LET rest == DedupParts(Tail(parts), seen_deezer)
              IN  [parts |-> rest.parts, dropped |-> rest.dropped + 1]

\* the inner loop without the seen_gids test: a later occurrence is processed like a first
CleanupWorkNoSeen(acc, work, multi, map) ==
    IF work.gid \in multi THEN acc
    ELSE LET fp == FilterParts(map, work.parts, work.gid)
             dp == DedupParts(fp.parts, {})
             st == StatAdd(StatAdd(acc.stats, "parts_dropped_cross_work_duplicate", fp.dropped),
                           "parts_dropped_duplicate_deezer", dp.dropped)
         IN  IF dp.parts = <<>>
             THEN [acc EXCEPT !.stats = StatAdd(st, "works_dropped_empty_after_deezer_dedup", 1)]
             ELSE [acc EXCEPT !.stats = st,
                              !.filtered_list = Append(@, [work EXCEPT !.parts = dp.parts])]

\* the inner loop without lines 639-641: a work left without parts is kept
CleanupWorkKeepEmpty(acc, work, multi, map) ==
    IF work.gid \in multi THEN acc
    ELSE IF work.gid \in acc.seen_gids
    THEN [acc EXCEPT !.duplicates_removed = @ + 1]
    ELSE LET fp == FilterParts(map, work.parts, work.gid)
             dp == DedupParts(fp.parts, {})
             st == StatAdd(StatAdd(acc.stats, "parts_dropped_cross_work_duplicate", fp.dropped),
                           "parts_dropped_duplicate_deezer", dp.dropped)
         IN  [acc EXCEPT !.seen_gids = acc.seen_gids \cup {work.gid}, !.stats = st,
                         !.filtered_list = Append(@, [work EXCEPT !.parts = dp.parts])]

\* the body of the inner loop (lines 602-643) for one work; acc carries
\* filtered_list, seen_gids, duplicates_removed and self.stats
CleanupWork(acc, work, multi, map) ==
    IF work.gid \in multi THEN acc
    ELSE IF work.gid \in acc.seen_gids
    THEN [acc EXCEPT !.duplicates_removed = @ + 1]
    ELSE LET fp == FilterParts(map, work.parts, work.gid)
             dp == DedupParts(fp.parts, {})
             st == StatAdd(StatAdd(acc.stats, "parts_dropped_cross_work_duplicate", fp.dropped),
                           "parts_dropped_duplicate_deezer", dp.dropped)
             seen == acc.seen_gids \cup {work.gid}
         IN  IF dp.parts = <<>>
             THEN [acc EXCEPT !.seen_gids = seen,
                              !.stats = StatAdd(st, "works_dropped_empty_after_deezer_dedup", 1)]
             ELSE [acc EXCEPT !.seen_gids = seen, !.stats = st,
                              !.filtered_list = Append(@, [work EXCEPT !.parts = dp.parts])]

RECURSIVE CleanupList(_, _, _, _)
CleanupList(acc, works, multi, map) ==
    IF works = <<>> THEN acc
    ELSE CleanupList(CleanupWork(acc, Head(works), multi, map), Tail(works), multi, map)

\* the outer loop (lines 600-646) over the categories; acc.filtered_works is the result map
RECURSIVE CleanupMap(_, _, _, _)
CleanupMap(acc, m, multi, map) ==
    IF m = <<>> THEN acc
    ELSE LET a == CleanupList([acc EXCEPT !.filtered_list = <<>>], Head(m).works, multi, map)
             a2 == IF a.filtered_list # <<>>
                   THEN [a EXCEPT !.filtered_works =
                                    Append(@, [key |-> Head(m).key, works |-> a.filtered_list])]
                   ELSE a
         IN  CleanupMap(a2, Tail(m), multi, map)

\* _filter_works_cleanup(works_after_wss) with self.stats = st:
\* [works: the returned map, stats: self.stats afterwards, map: deezer_to_work_gid]
FilterWorksCleanup(m, st) ==
    LET flat == MapWorks(m)
        multi == GidsWithMultipleComposers(flat)
        map == ClaimWorks(EmptyMap, flat, multi)
        acc == CleanupMap([filtered_works |-> <<>>, filtered_list |-> <<>>, seen_gids |-> {},
                           duplicates_removed |-> 0, stats |-> st], m, multi, map)
    IN  [works |-> acc.filtered_works,
         stats |-> StatSet(StatSet(acc.stats, "works_dropped_multiple_composers", Cardinality(multi)),
                           "works_dropped_duplicates", acc.duplicates_removed),
         map |-> map]

----------------------------------------------------------------------------
(* _group_works_by_type *)

RECURSIVE GroupAppend(_, _)
GroupAppend(m, work) ==
    IF m = <<>> THEN <<[key |-> work.type, works |-> <<work>>]>>
    ELSE IF Head(m).key = work.type
    THEN <<[Head(m) EXCEPT !.works = Append(@, work)]>> \o Tail(m)
    ELSE <<Head(m)>> \o GroupAppend(Tail(m), work)

RECURSIVE GroupInto(_, _)
GroupInto(m, works) ==
    IF works = <<>> THEN m ELSE GroupInto(GroupAppend(m, Head(works)), Tail(works))

GroupWorksByType(works) == GroupInto(<<>>, works)

----------------------------------------------------------------------------
(* _filter_composers_by_birth_year *)

\* c.birth_year and c.birth_year >= MIN_BIRTH_YEAR
BirthYearOk(c) == TruthyInt(c.birth_year) /\ c.birth_year[1] >= MIN_BIRTH_YEAR

FilterComposersByBirthYear(cs) == SelectSeq(cs, BirthYearOk)

----------------------------------------------------------------------------
(* _filter_works_by_wss *)

\* the score floor left out
WssOkNoFloor(work) == work.gid \notin EXCLUDED_WORKS

WssOk(work) == work.score >= MINIMUM_WSS /\ work.gid \notin EXCLUDED_WORKS

\* a sort that puts the later of two works of equal score first
RECURSIVE InsertByScoreBeforeTies(_, _)
InsertByScoreBeforeTies(sorted, w) ==
    IF sorted = <<>> THEN <<w>>
    ELSE IF Head(sorted).score > w.score
    THEN <<Head(sorted)>> \o InsertByScoreBeforeTies(Tail(sorted), w)
    ELSE <<w>> \o sorted

\* filtered_list.sort(key=score, reverse=True): stable, highest score first
RECURSIVE InsertByScore(_, _)
InsertByScore(sorted, w) ==
    IF sorted = <<>> THEN <<w>>
    ELSE IF Head(sorted).score >= w.score
    THEN <<Head(sorted)>> \o InsertByScore(Tail(sorted), w)
    ELSE <<w>> \o sorted

RECURSIVE SortByScore(_)
SortByScore(works) ==
    IF works = <<>> THEN <<>>
    ELSE InsertByScore(SortByScore(SubSeq(works, 1, Len(works) - 1)), works[Len(works)])

\* [works: filtered_map, dropped: what the call adds to works_dropped_by_min_wss]
RECURSIVE FilterWorksByWss(_)
FilterWorksByWss(m) ==
    IF m = <<>> THEN [works |-> <<>>, dropped |-> 0]
    ELSE LET filtered_list == SelectSeq(Head(m).works, WssOk)
             rest == FilterWorksByWss(Tail(m))
         IN  [works |-> (IF filtered_list # <<>>
                         THEN <<[key |-> Head(m).key, works |-> SortByScore(filtered_list)]>>
                         ELSE <<>>) \o rest.works,
              dropped |-> (Len(Head(m).works) - Len(filtered_list)) + rest.dropped]

----------------------------------------------------------------------------
(* Composer Gate: _filter_final_composers *)

\* composer_work_counts[gid]
ComposerWorkCount(m, gid) ==
    Cardinality({i \in DOMAIN MapWorks(m) : MapWorks(m)[i].composer = gid})

\* the minimum compared off by one
RetainedOffByOne(c, m) ==
    ComposerWorkCount(m, c.gid) >= MIN_WORKS_PER_COMPOSER - 1 /\ c.name \notin EXCLUDED_COMPOSERS

Retained(c, m) ==
    ComposerWorkCount(m, c.gid) >= MIN_WORKS_PER_COMPOSER /\ c.name \notin EXCLUDED_COMPOSERS

\* the branch "elif composer.gid in composer_work_counts"
CountedAsDropped(c, m) == ~ Retained(c, m) /\ ComposerWorkCount(m, c.gid) > 0

\* the composer names of the model in Python's string order
ComposerNameOrder ==
    <<"Anonymous", "Bach, Johann Sebastian", "Dunstaple, John", "Vangelis">>

NameRank(name) == CHOOSE i \in DOMAIN ComposerNameOrder : ComposerNameOrder[i] = name

\* sorted(final_composers, key=name): stable
RECURSIVE InsertByName(_, _)
InsertByName(sorted, c) ==
    IF sorted = <<>> THEN <<c>>
    ELSE IF NameRank(Head(sorted).name) <= NameRank(c.name)
    THEN <<Head(sorted)>> \o InsertByName(Tail(sorted), c)
    ELSE <<c>> \o sorted

RECURSIVE SortByName(_)
SortByName(cs) ==
    IF cs = <<>> THEN <<>>
    ELSE InsertByName(SortByName(SubSeq(cs, 1, Len(cs) - 1)), cs[Len(cs)])

FinalComposer(c) == [gid |-> c.gid, name |-> c.name, birth_year |-> c.birth_year]

\* [composers: the returned list, dropped: what the call adds to composers_dropped_min_works]
FilterFinalComposers(original_composers, m) ==
    LET kept == SelectSeq(original_composers, LAMBDA c : Retained(c, m))
        counted == SelectSeq(original_composers, LAMBDA c : CountedAsDropped(c, m))
    IN  [composers |-> SortByName([i \in DOMAIN kept |-> FinalComposer(kept[i])]),
         dropped |-> Len(counted)]

----------------------------------------------------------------------------
(* Assembler: stage 4 of process(), _write_unresolved_log *)

\* the synchronised list of each category cut to its first work
RECURSIVE SyncWorksFirstOnly(_, _)
SyncWorksFirstOnly(m, final_composer_gids) ==
    IF m = <<>> THEN <<>>
    ELSE LET synced_list == SelectSeq(Head(m).works, LAMBDA w : w.composer \in final_composer_gids)
         IN  (IF synced_list # <<>> THEN <<[key |-> Head(m).key, works |-> <<Head(synced_list)>>]>>
              ELSE <<>>) \o SyncWorksFirstOnly(Tail(m), final_composer_gids)

\* the works passed on unsynchronised
SyncWorksUnfiltered(m, final_composer_gids) == m

\* the loop of lines 383-389
RECURSIVE SyncWorks(_, _)
SyncWorks(m, final_composer_gids) ==
    IF m = <<>> THEN <<>>
    ELSE LET synced_list == SelectSeq(Head(m).works, LAMBDA w : w.composer \in final_composer_gids)
         IN  (IF synced_list # <<>> THEN <<[key |-> Head(m).key, works |-> synced_list]>>
              ELSE <<>>) \o SyncWorks(Tail(m), final_composer_gids)

\* the content written to unresolved_types.txt as the set of its entries
\* [name, type], or None when the file is not written
WriteUnresolvedLog(unresolved, m) ==
    LET final_unresolved_names == {w.name : w \in SeqToSet(MapGet(m, "other"))}
        final_messages == {[name |-> n, type |-> unresolved[n]] :
                              n \in DOMAIN unresolved \cap final_unresolved_names}
    IN  IF DOMAIN unresolved = {} \/ final_messages = {} THEN None ELSE Some(final_messages)

----------------------------------------------------------------------------
(* Inputs of the deduplicator when it is checked on its own *)

MaxCleanupWorks == 3

\* the works: w1 under either composer (the ambiguous case), w2 under the first
CleanupOwners == {<<"w1", "c1">>, <<"w1", "c2">>, <<"w2", "c1">>}
CleanupTypes == {"piano", "other"}

Part(ids) == [name |-> "part", deezer |-> ids, score |-> 10000]

CleanupPartLists ==
    {<<Part(<<1>>)>>, <<Part(<<2>>)>>, <<Part(<<2, 1>>)>>, <<Part(<<1>>), Part(<<1, 2>>)>>}

CleanupWorks ==
    {[gid |-> o[1], composer |-> o[2], name |-> "", type |-> t, score |-> 300, parts |-> ps] :
        o \in CleanupOwners, t \in CleanupTypes, ps \in CleanupPartLists}

\* every work of an input gets a name of its own
OccurrenceNames == <<"first", "second", "third", "fourth", "fifth", "sixth">>
Named(flat) == [i \in DOMAIN flat |-> [flat[i] EXCEPT !.name = OccurrenceNames[i]]]

----------------------------------------------------------------------------
(* The deduplicator called on an arbitrary category map, then on its own output *)

InitCleanup ==
    /\ pc = "call_cleanup"
    /\ \E n \in 0..MaxCleanupWorks : \E flat \in [1..n -> CleanupWorks] :
           works_after_wss = GroupWorksByType(Named(flat))
    /\ composers = <<>>
    /\ stats = EmptyStats
    /\ unresolved_work_candidates = EmptyMap
    /\ composers_by_birth_year = <<>>
    /\ work_candidates = <<>>
    /\ works_by_type = <<>>
    /\ works_after_cleanup = <<>>
    /\ deezer_to_work_gid = EmptyMap
    /\ works_after_recleanup = <<>>
    /\ final_composers = <<>>
    /\ final_works = <<>>
    /\ unresolved_log = None
    /\ call = None
    /\ ret = None

CallCleanup ==
    /\ pc = "call_cleanup"
    /\ LET r == FilterWorksCleanup(works_after_wss, stats)
       IN  /\ works_after_cleanup' = r.works
           /\ stats' = r.stats
           /\ deezer_to_work_gid' = r.map
    /\ pc' = "call_recleanup"
    /\ UNCHANGED <<composers, unresolved_work_candidates, composers_by_birth_year,
                   work_candidates, works_by_type, works_after_wss,
                   works_after_recleanup, final_composers, final_works, unresolved_log>>
    /\ UNCHANGED <<call, ret>>

CallCleanupAgain ==
    /\ pc = "call_recleanup"
    /\ works_after_recleanup' = FilterWorksCleanup(works_after_cleanup, stats).works
    /\ pc' = "cleanup_done"
    /\ UNCHANGED <<composers, stats, unresolved_work_candidates, composers_by_birth_year,
                   work_candidates, works_by_type, works_after_wss, works_after_cleanup,
                   deezer_to_work_gid, final_composers, final_works, unresolved_log>>
    /\ UNCHANGED <<call, ret>>

\* the deduplicator called on one work of several parts, after a work that may claim
\* one of its tracks
MaxDedupParts == 3
PartIdLists == {<<1>>, <<2>>, <<3>>, <<1, 2>>, <<1, 3>>, <<2, 3>>, <<1, 2, 3>>}

InitCleanupParts ==
    /\ pc = "call_cleanup"
    /\ \E n \in 1..MaxDedupParts : \E ids \in [1..n -> PartIdLists] :
       \E others \in {<<>>, <<[gid |-> "w0", composer |-> "c1", name |-> "other work",
                              type |-> "piano", score |-> 300, parts |-> <<Part(<<3>>)>>]>>} :
           works_after_wss =
               GroupWorksByType(others \o
                   <<[gid |-> "w1", composer |-> "c1", name |-> "work", type |-> "piano",
                      score |-> 300,
                      parts |-> [i \in 1..n |-> [name |-> OccurrenceNames[i], deezer |-> ids[i],
                                                       score |-> 10000]]]>>)
    /\ composers = <<>>
    /\ stats = EmptyStats
    /\ unresolved_work_candidates = EmptyMap
    /\ composers_by_birth_year = <<>>
    /\ work_candidates = <<>>
    /\ works_by_type = <<>>
    /\ works_after_cleanup = <<>>
    /\ deezer_to_work_gid = EmptyMap
    /\ works_after_recleanup = <<>>
    /\ final_composers = <<>>
    /\ final_works = <<>>
    /\ unresolved_log = None
    /\ call = None
    /\ ret = None

NextCleanup == CallCleanup \/ CallCleanupAgain

SpecCleanup == InitCleanup /\ [][NextCleanup]_vars

SpecCleanupParts == InitCleanupParts /\ [][NextCleanup]_vars

----------------------------------------------------------------------------
(* The input forest (musicbrainz.json) *)

\* the total number of root works of the forest
MaxRootWorks == 3

\* n recordings whose track identifiers cycle through ids
Recs(n, ids) ==
    [i \in 1..n |->
        [name |-> IF i % 2 = 0 THEN "Recording" ELSE "Recording (live)",
         label |-> CASE i % 3 = 0 -> Some("Decca")
                     [] i % 3 = 1 -> None
                     [] OTHER -> Some("Naxos"),
         deezerId |-> ids[((i - 1) % Len(ids)) + 1]]]

Declared(t) == [present |-> TRUE, val |-> t]
Undeclared == [present |-> FALSE, val |-> None]

RawWork(gid, name, type, recordings, subworks) ==
    [gid |-> gid, name |-> name, type |-> type, recordings |-> recordings,
     subworks |-> subworks]

\* the root works a forest of the model is drawn from
RawRootWorks ==
   << RawWork("w1", "Piano Sonata No. 14", Declared(Some("Sonata")), <<>>,
              << RawWork("w1a", "Adagio sostenuto", Undeclared,
                         Recs(9, <<Some(1), Some(2)>>), <<>>),
                 RawWork("w1b", "Allegretto", Undeclared, Recs(2, <<Some(7)>>), <<>>),
                 RawWork("w1c", "Presto agitato", Undeclared,
                         Recs(9, <<Some(3), Some(4)>>), <<>>) >>),
      RawWork("w1", "Piano Sonata No. 14", Declared(Some("Sonata")),
              Recs(3, <<Some(1)>>), <<>>),
      RawWork("w2", "Nocturne", Undeclared,
              Recs(12, <<Some(2), Some(3), None>>), <<>>),
      RawWork("718b96fa-75eb-436e-8c30-0c647aa99696", "Ave Maria", Declared(Some("Song")),
              Recs(9, <<Some(8)>>), <<>>),
      RawWork("11f48c5e-5ee9-4646-9826-fb7c2fccce7f", "Swan Lake", Declared(None), <<>>,
              << RawWork("sl1", "Scene", Undeclared, Recs(4, <<Some(5), Some(99)>>), <<>>),
                 RawWork("sl2", "Valse", Undeclared, Recs(3, <<Some(6)>>), <<>>),
                 RawWork("sl3", "Finale", Undeclared, Recs(4, <<Some(5)>>), <<>>) >>),
      RawWork("w3", "Nocturne", Declared(Some("Zyklus")), Recs(12, <<Some(9)>>), <<>>) >>

ComposerGids == <<CHOPIN_GID, "c2">>

ComposerProfiles ==
    { [name |-> "Bach, Johann Sebastian", birth_year |-> Some(1685)],
      [name |-> "Dunstaple, John", birth_year |-> Some(1390)],
      [name |-> "Vangelis", birth_year |-> Some(1943)],
      [name |-> "Anonymous", birth_year |-> None] }

RawComposer(gid, profile, works) ==
    [gid |-> gid, name |-> profile.name, birth_year |-> profile.birth_year, works |-> works]

\* the root works picked from the catalogue by a sequence of indices
Pick(ix) == [i \in DOMAIN ix |-> RawRootWorks[ix[i]]]

----------------------------------------------------------------------------
(* MusicbrainzProcessor(composers_data).process() *)

Init ==
    /\ pc = "birth_year"
    /\ \E n1 \in 0..MaxRootWorks : \E n2 \in 0..(MaxRootWorks - n1) :
       \E ix1 \in [1..n1 -> DOMAIN RawRootWorks], ix2 \in [1..n2 -> DOMAIN RawRootWorks] :
       \E p1 \in ComposerProfiles, p2 \in ComposerProfiles :
           composers = ParseInputData(<<RawComposer(ComposerGids[1], p1, Pick(ix1)),
                                        RawComposer(ComposerGids[2], p2, Pick(ix2))>>)
    /\ stats = EmptyStats
    /\ unresolved_work_candidates = EmptyMap
    /\ composers_by_birth_year = <<>>
    /\ work_candidates = <<>>
    /\ works_by_type = <<>>
    /\ works_after_wss = <<>>
    /\ works_after_cleanup = <<>>
    /\ deezer_to_work_gid = EmptyMap
    /\ works_after_recleanup = <<>>
    /\ final_composers = <<>>
    /\ final_works = <<>>
    /\ unresolved_log = None
    /\ call = None
    /\ ret = None

\* lines 364-367
StageBirthYear ==
    /\ pc = "birth_year"
    /\ composers_by_birth_year' = FilterComposersByBirthYear(composers)
    /\ stats' = StatSet(StatSet(stats, "initial_composers", Len(composers)),
                        "composers_dropped_birth_year",
                        Len(composers) - Len(FilterComposersByBirthYear(composers)))
    /\ pc' = "candidates"
    /\ UNCHANGED <<composers, unresolved_work_candidates, work_candidates, works_by_type,
                   works_after_wss, works_after_cleanup, deezer_to_work_gid,
                   works_after_recleanup, final_composers, final_works, unresolved_log>>
    /\ UNCHANGED <<call, ret>>

\* line 368; the count annotation is written into the trees, which self.composers shares
StageCandidates ==
    /\ pc = "candidates"
    /\ LET r == GenerateWorkCandidates(composers_by_birth_year, stats, unresolved_work_candidates)
       IN  /\ work_candidates' = r.all_works
           /\ stats' = r.stats
           /\ unresolved_work_candidates' = r.unresolved
    /\ composers_by_birth_year' = AnnotateCounts(composers_by_birth_year)
    /\ composers' = [i \in DOMAIN composers |->
                        IF BirthYearOk(composers[i])
                        THEN AnnotateCounts(<<composers[i]>>)[1] ELSE composers[i]]
    /\ pc' = "group"
    /\ UNCHANGED <<works_by_type, works_after_wss, works_after_cleanup, deezer_to_work_gid,
                   works_after_recleanup, final_composers, final_works, unresolved_log>>
    /\ UNCHANGED <<call, ret>>

\* line 371
StageGroup ==
    /\ pc = "group"
    /\ works_by_type' = GroupWorksByType(work_candidates)
    /\ pc' = "wss"
    /\ UNCHANGED <<composers, stats, unresolved_work_candidates, composers_by_birth_year,
                   work_candidates, works_after_wss, works_after_cleanup, deezer_to_work_gid,
                   works_after_recleanup, final_composers, final_works, unresolved_log>>
    /\ UNCHANGED <<call, ret>>

\* line 372
StageWss ==
    /\ pc = "wss"
    /\ LET r == FilterWorksByWss(works_by_type)
       IN  /\ works_after_wss' = r.works
           /\ stats' = StatAdd(stats, "works_dropped_by_min_wss", r.dropped)
    /\ pc' = "cleanup"
    /\ UNCHANGED <<composers, unresolved_work_candidates, composers_by_birth_year,
                   work_candidates, works_by_type, works_after_cleanup, deezer_to_work_gid,
                   works_after_recleanup, final_composers, final_works, unresolved_log>>
    /\ UNCHANGED <<call, ret>>

\* line 373
StageCleanup ==
    /\ pc = "cleanup"
    /\ LET r == FilterWorksCleanup(works_after_wss, stats)
       IN  /\ works_after_cleanup' = r.works
           /\ stats' = r.stats
           /\ deezer_to_work_gid' = r.map
    /\ pc' = "final_composers"
    /\ UNCHANGED <<composers, unresolved_work_candidates, composers_by_birth_year,
                   work_candidates, works_by_type, works_after_wss, works_after_recleanup,
                   final_composers, final_works, unresolved_log>>
    /\ UNCHANGED <<call, ret>>

\* lines 376-379
StageFinalComposers ==
    /\ pc = "final_composers"
    /\ LET r == FilterFinalComposers(composers_by_birth_year, works_after_cleanup)
       IN  /\ final_composers' = r.composers
           /\ stats' = StatSet(StatAdd(stats, "composers_dropped_min_works", r.dropped),
                               "final_composers", Len(r.composers))
    /\ pc' = "sync"
    /\ UNCHANGED <<composers, unresolved_work_candidates, composers_by_birth_year,
                   work_candidates, works_by_type, works_after_wss, works_after_cleanup,
                   deezer_to_work_gid, works_after_recleanup, final_works, unresolved_log>>
    /\ UNCHANGED <<call, ret>>

\* lines 382-393
StageSync ==
    /\ pc = "sync"
    /\ LET synced == SyncWorks(works_after_cleanup,
                               {final_composers[i].gid : i \in DOMAIN final_composers})
       IN  /\ final_works' = synced
           /\ unresolved_log' = WriteUnresolvedLog(unresolved_work_candidates, synced)
    /\ pc' = "returned"
    /\ UNCHANGED <<composers, stats, unresolved_work_candidates, composers_by_birth_year,
                   work_candidates, works_by_type, works_after_wss, works_after_cleanup,
                   deezer_to_work_gid, works_after_recleanup, final_composers>>
    /\ UNCHANGED <<call, ret>>

Next ==
    \/ StageBirthYear
    \/ StageCandidates
    \/ StageGroup
    \/ StageWss
    \/ StageCleanup
    \/ StageFinalComposers
    \/ StageSync

Spec == Init /\ [][Next]_vars

----------------------------------------------------------------------------
(* Single methods called on their own *)

\* the fields of the processor and the locals of process(), untouched by such a call
Idle ==
    /\ composers = <<>>
    /\ stats = EmptyStats
    /\ unresolved_work_candidates = EmptyMap
    /\ composers_by_birth_year = <<>>
    /\ work_candidates = <<>>
    /\ works_by_type = <<>>
    /\ works_after_wss = <<>>
    /\ works_after_cleanup = <<>>
    /\ deezer_to_work_gid = EmptyMap
    /\ works_after_recleanup = <<>>
    /\ final_composers = <<>>
    /\ final_works = <<>>
    /\ unresolved_log = None

StayIdle ==
    UNCHANGED <<composers, stats, unresolved_work_candidates, composers_by_birth_year,
                work_candidates, works_by_type, works_after_wss, works_after_cleanup,
                deezer_to_work_gid, works_after_recleanup, final_composers, final_works,
                unresolved_log>>

(* _get_dynamic_part_score_threshold called for two scores *)

\* scores 0.0, 0.1, ... in e4
MaxWssSteps == 70
WssStep == WSS_UPPER_BOUND \div 60
WssSamples == {k * WssStep : k \in 0..MaxWssSteps}

InitThreshold ==
    /\ pc = "call_threshold"
    /\ \E w1 \in WssSamples, w2 \in WssSamples : call = <<w1, w2>>
    /\ ret = None
    /\ Idle

CallThreshold ==
    /\ pc = "call_threshold"
    /\ ret' = <<DynamicPartScoreThreshold(call[1]), DynamicPartScoreThreshold(call[2])>>
    /\ pc' = "threshold_done"
    /\ UNCHANGED call
    /\ StayIdle

NextThreshold == CallThreshold

SpecThreshold == InitThreshold /\ [][NextThreshold]_vars

(* The WSS formula of _generate_work_candidates for a list of parts and a weight *)

MaxParts == 3
AlphaSteps == 4
PartRecordingCounts == {3, 4, 9, 12, 60}

InitWss ==
    /\ pc = "call_wss"
    /\ \E n \in 1..MaxParts : \E counts \in [1..n -> PartRecordingCounts] :
       \E k \in 0..AlphaSteps :
           call = [pss_values |-> [i \in 1..n |-> Log1p(counts[i])],
                   alpha_num |-> k, alpha_den |-> AlphaSteps]
    /\ ret = None
    /\ Idle

CallWss ==
    /\ pc = "call_wss"
    /\ ret' = WeightedWss(call.pss_values, call.alpha_num, call.alpha_den)
    /\ pc' = "wss_done"
    /\ UNCHANGED call
    /\ StayIdle

NextWss == CallWss

SpecWss == InitWss /\ [][NextWss]_vars

(* One raw work tree parsed, annotated and flattened *)

\* the ordered trees of exactly n nodes, each node labelled from labels
RECURSIVE LabelledTrees(_, _), LabelledForests(_, _)
LabelledTrees(n, labels) ==
    {[label |-> l, subworks |-> kids] : l \in labels, kids \in LabelledForests(n - 1, labels)}

\* the sequences of such trees with m nodes in all
LabelledForests(m, labels) ==
    IF m = 0 THEN {<<>>}
    ELSE UNION {{<<t>> \o f : t \in LabelledTrees(k, labels),
                              f \in LabelledForests(m - k, labels)} : k \in 1..m}

MaxTreeNodes == 5
TreeRecordingCounts == {0, MIN_RECORDINGS_PER_PART - 1, MIN_RECORDINGS_PER_PART}

\* the raw work dict of a tree labelled with recording counts; no node declares a type
RECURSIVE RawTreeOfCounts(_)
RawTreeOfCounts(t) ==
    RawWork("w", "work", Undeclared, Recs(t.label, <<Some(1)>>),
            [i \in DOMAIN t.subworks |-> RawTreeOfCounts(t.subworks[i])])

InitTree ==
    /\ pc = "call_parse"
    /\ \E n \in 1..MaxTreeNodes : \E t \in LabelledTrees(n, TreeRecordingCounts) :
           call = RawTreeOfCounts(t)
    /\ ret = None
    /\ Idle

\* self._parse_work_tree(w) of _parse_input_data
CallParse ==
    /\ pc = "call_parse"
    /\ ret' = [work |-> ParseWorkTree(call, None), leafs |-> <<>>, dropped |-> 0]
    /\ pc' = "call_counts"
    /\ UNCHANGED call
    /\ StayIdle

\* self._calculate_recursive_counts(root_work)
CallCounts ==
    /\ pc = "call_counts"
    /\ ret' = [ret EXCEPT !.work = CalculateRecursiveCounts(ret.work)]
    /\ pc' = "call_flatten"
    /\ UNCHANGED call
    /\ StayIdle

\* leaf_parts = self._filter_and_flatten_tree(root_work)
CallFlatten ==
    /\ pc = "call_flatten"
    /\ ret' = [ret EXCEPT !.leafs = FilterAndFlattenTree(ret.work).leafs,
                          !.dropped = FilterAndFlattenTree(ret.work).dropped]
    /\ pc' = "tree_done"
    /\ UNCHANGED call
    /\ StayIdle

NextTree == CallParse \/ CallCounts \/ CallFlatten

SpecTree == InitTree /\ [][NextTree]_vars

(* The same calls on a tree whose nodes differ in their "type" entry *)

MaxTypedNodes == 4
TypeEntries == {Undeclared, Declared(None), Declared(Some("Sonata")), Declared(Some("Song"))}

RECURSIVE RawTreeOfTypes(_)
RawTreeOfTypes(t) ==
    RawWork("w", "work", t.label, <<>>,
            [i \in DOMAIN t.subworks |-> RawTreeOfTypes(t.subworks[i])])

InitParse ==
    /\ pc = "call_parse"
    /\ \E n \in 1..MaxTypedNodes : \E t \in LabelledTrees(n, TypeEntries) :
           call = RawTreeOfTypes(t)
    /\ ret = None
    /\ Idle

SpecParse == InitParse /\ [][NextTree]_vars

(* _transform_type called on one work *)

\* the raw types: the keys of TYPE_MAPPING, the default of the extractor, a type
\* outside the mapping and null
RawTypes == {Some(t) : t \in DOMAIN TYPE_MAPPING \cup {"Unknown", "Zyklus"}} \cup {None}

InitClassify ==
    /\ pc = "call_transform_type"
    /\ \E name \in WorkNames, type \in RawTypes, composer_gid \in {CHOPIN_GID, "c2"} :
           call = [work |-> [name |-> name, type |-> type], composer_gid |-> composer_gid]
    /\ ret = None
    /\ Idle

CallTransformType ==
    /\ pc = "call_transform_type"
    /\ LET tt == TransformType(call.work, call.composer_gid)
       IN  /\ ret' = Some(tt.category)
           /\ unresolved_work_candidates' =
                  IF tt.unresolved
                  THEN DictPut(unresolved_work_candidates, call.work.name, call.work.type)
                  ELSE unresolved_work_candidates
    /\ pc' = "transform_type_done"
    /\ UNCHANGED <<composers, stats, composers_by_birth_year, work_candidates, works_by_type,
                   works_after_wss, works_after_cleanup, deezer_to_work_gid,
                   works_after_recleanup, final_composers, final_works, unresolved_log, call>>

NextClassify == CallTransformType

SpecClassify == InitClassify /\ [][NextClassify]_vars

(* _select_deezer_ids called on one list of recordings *)

\* short lists of arbitrary recordings
MaxRecordings == 3
SomeRecordings ==
    {[name |-> n, label |-> l, deezerId |-> d] :
        n \in {"Recording", "Recording (live)"},
        l \in {None, Some("Decca"), Some("Naxos")},
        d \in {None, Some(1), Some(2), Some(99)}}

\* long lists whose track identifiers cycle
MaxCycledRecordings == 13
IdCycles ==
    { <<Some(1)>>,
      <<Some(1), Some(2), Some(3), Some(4), Some(5), Some(6), Some(7)>>,
      <<Some(1), None, Some(99), Some(2), Some(3), Some(4), Some(5), Some(6)>>,
      <<Some(1), Some(2), Some(1), Some(3), Some(99), Some(4), Some(5), Some(6), Some(7)>>,
      <<None, Some(99)>> }

InitSelect ==
    /\ pc = "call_select"
    /\ \/ \E n \in 0..MaxRecordings : call \in [1..n -> SomeRecordings]
       \/ \E n \in 0..MaxCycledRecordings, ids \in IdCycles : call = Recs(n, ids)
    /\ ret = None
    /\ Idle

CallSelect ==
    /\ pc = "call_select"
    /\ ret' = SelectDeezerIds(call)
    /\ pc' = "select_done"
    /\ UNCHANGED call
    /\ StayIdle

NextSelect == CallSelect

SpecSelect == InitSelect /\ [][NextSelect]_vars

(* _generate_work_candidates called on one composer with one root work *)

MaxLeafParts == 3
LeafRecordingCounts == {MIN_RECORDINGS_PER_PART - 1, MIN_RECORDINGS_PER_PART, 5, 50}
LeafIdCycles == {<<Some(1), Some(2)>>, <<None>>, <<Some(99), None>>}
LeafNames == <<"part1", "part2", "part3", "part4">>

\* a root work whose sub-works are leaves of the given recording counts and identifiers
RawRootOfLeaves(counts, cycles) ==
    RawWork("w", "Symphony No. 5", Declared(Some("Symphony")), <<>>,
            [i \in DOMAIN counts |->
                RawWork("p", LeafNames[i], Undeclared, Recs(counts[i], cycles[i]), <<>>)])

InitCandidates ==
    /\ pc = "call_generate"
    /\ \E n \in 1..MaxLeafParts :
       \E counts \in [1..n -> LeafRecordingCounts], cycles \in [1..n -> LeafIdCycles] :
           call = ParseInputData(<<[gid |-> "c2", name |-> "Bach, Johann Sebastian",
                                    birth_year |-> Some(1685),
                                    works |-> <<RawRootOfLeaves(counts, cycles)>>]>>)
    /\ ret = None
    /\ Idle

CallGenerate ==
    /\ pc = "call_generate"
    /\ LET r == GenerateWorkCandidates(call, stats, unresolved_work_candidates)
       IN  /\ ret' = r.all_works
           /\ stats' = r.stats
           /\ unresolved_work_candidates' = r.unresolved
    /\ pc' = "generate_done"
    /\ UNCHANGED <<composers, composers_by_birth_year, work_candidates, works_by_type,
                   works_after_wss, works_after_cleanup, deezer_to_work_gid,
                   works_after_recleanup, final_composers, final_works, unresolved_log, call>>

NextCandidates == CallGenerate

SpecCandidates == InitCandidates /\ [][NextCandidates]_vars

(* main(): the run as a whole, with the files it reads and writes *)

MaxMainWorks == 2

\* the state of an output file before the run
FileStates == {"absent", "old"}

\* a missing input read as an empty list of composers
OpenInputOrEmpty(input) ==
    [found |-> TRUE, composers_data |-> IF input = None THEN <<>> ELSE input[1]]

\* open("musicbrainz.json") and json.load; found is FALSE on FileNotFoundError
OpenInput(input) ==
    IF input = None THEN [found |-> FALSE, composers_data |-> <<>>]
    ELSE [found |-> TRUE, composers_data |-> input[1]]

\* call: musicbrainz.json (None when absent) and the output files before the run;
\* ret: the messages printed and the catalog and the report as the run leaves them
InitMain ==
    /\ pc = "main_open"
    /\ \E input \in {None} \cup
                    {Some(<<RawComposer("c2", p, Pick(ix))>>) :
                        p \in ComposerProfiles,
                        ix \in UNION {[1..n -> DOMAIN RawRootWorks] : n \in 0..MaxMainWorks}} :
       \E catalog \in FileStates, report \in FileStates, log \in FileStates :
           /\ call = [input |-> input, catalog |-> catalog, report |-> report, log |-> log]
           /\ ret = [printed |-> <<>>, catalog |-> catalog, report |-> report]
    /\ Idle

\* lines 973-992: the input is opened and the processor constructed, or the run ends
MainOpen ==
    /\ pc = "main_open"
    /\ LET opened == OpenInput(call.input)
       IN  IF ~opened.found
           THEN /\ ret' = [ret EXCEPT !.printed = Append(@, "input not found")]
                /\ pc' = "main_returned"
                /\ UNCHANGED composers
           ELSE /\ ret' = [ret EXCEPT !.printed = @ \o <<"excluded ids loaded", "composers loaded">>]
                /\ composers' = ParseInputData(opened.composers_data)
                /\ pc' = "birth_year"
    /\ UNCHANGED <<stats, unresolved_work_candidates, composers_by_birth_year,
                   work_candidates, works_by_type, works_after_wss, works_after_cleanup,
                   deezer_to_work_gid, works_after_recleanup, final_composers, final_works,
                   unresolved_log, call>>

\* lines 994-997
MainWriteCatalog ==
    /\ pc = "returned"
    /\ ret' = [ret EXCEPT !.catalog = "written", !.printed = Append(@, "saved")]
    /\ pc' = "main_report"
    /\ UNCHANGED call
    /\ StayIdle

\* line 999
MainReport ==
    /\ pc = "main_report"
    /\ ret' = [ret EXCEPT !.report = "written"]
    /\ pc' = "main_summary"
    /\ UNCHANGED call
    /\ StayIdle

\* line 1001
MainSummary ==
    /\ pc = "main_summary"
    /\ ret' = [ret EXCEPT !.printed = Append(@, "summary")]
    /\ pc' = "main_returned"
    /\ UNCHANGED call
    /\ StayIdle

NextMain == MainOpen \/ Next \/ MainWriteCatalog \/ MainReport \/ MainSummary

SpecMain == InitMain /\ [][NextMain]_vars

(* process_deezer.py: main() of the availability checker *)

RECHECK_EXCLUDED == FALSE

MaxDeezerIds == 2
DeezerIds == 1..MaxDeezerIds

\* what the API answers to a request: a track with a preview, a track without one,
\* the error "DataException", or another error (quota, an exception while fetching)
FirstResponses == {"preview", "no preview", "DataException", "other error"}
RetryResponses == {"preview", "other error"}

\* the ids of the parts of ../static/lisztnup.json not yet excluded or processed
\* (normal mode), or the excluded ids (recheck mode)
IdsToCheck(catalog_ids, excluded, processed) ==
    IF RECHECK_EXCLUDED THEN excluded
    ELSE {d \in catalog_ids : d \notin excluded /\ d \notin processed}

\* excluded.add(deezer_id), the line appended to excluded_deezer_ids, new_excluded += 1
Exclude(run, deezer_id) ==
    [run EXCEPT !.excluded = @ \cup {deezer_id},
                !.excluded_file = @ \cup {deezer_id},
                !.new_excluded = @ + 1]

\* fetch_deezer for deezer_id: its next response
Fetch(run, responses, deezer_id) ==
    [run |-> [run EXCEPT !.fetches[deezer_id] = @ + 1],
     res |-> responses[deezer_id][run.fetches[deezer_id] + 1]]

\* the body of the loop over as_completed(tasks), lines 220-258
CompleteTask(run, responses, deezer_id) ==
    LET f == Fetch(run, responses, deezer_id)
        r1 == [f.run EXCEPT !.processed = @ \cup {deezer_id}, !.pending = @ \ {deezer_id}]
        r2 == IF RECHECK_EXCLUDED
              THEN IF f.res = "preview"
                   THEN [r1 EXCEPT !.excluded = @ \ {deezer_id},
                                   !.excluded_file = r1.excluded \ {deezer_id}]
                   ELSE r1
              ELSE IF f.res = "DataException" THEN Exclude(r1, deezer_id)
              ELSE IF f.res = "other error" THEN [r1 EXCEPT !.retry_ids = @ \cup {deezer_id}]
              ELSE IF f.res = "no preview" THEN Exclude(r1, deezer_id)
              ELSE r1
    IN  IF Cardinality(r2.processed) % 100 = 0
        THEN [r2 EXCEPT !.processed_file = r2.processed] ELSE r2

\* the body of the loop over as_completed(retry_tasks), lines 277-301
CompleteRetry(run, responses, deezer_id) ==
    LET f == Fetch(run, responses, deezer_id)
        r1 == [f.run EXCEPT !.processed = @ \cup {deezer_id}]
    IN  IF f.res # "preview" THEN Exclude(r1, deezer_id) ELSE r1

RECURSIVE CompleteRetries(_, _, _)
CompleteRetries(run, responses, retry_list) ==
    IF retry_list = {} THEN run
    ELSE LET deezer_id == CHOOSE d \in retry_list : TRUE
         IN  CompleteRetries(CompleteRetry(run, responses, deezer_id), responses,
                             retry_list \ {deezer_id})

\* the retry pass, lines 270-306
RetryPass(run, responses) ==
    IF run.retry_ids = {} THEN run
    ELSE LET retry_list == run.retry_ids \ run.processed
         IN  IF retry_list = {} THEN run
             ELSE LET r == CompleteRetries(run, responses, retry_list)
                  IN  [r EXCEPT !.processed_file = r.processed]

\* call: the ids of the catalog, the two files before the run, and for each id the
\* answers of the API to a first and to a second request
InitDeezer ==
    /\ pc = "deezer_load"
    /\ \E excluded \in SUBSET DeezerIds, processed \in SUBSET DeezerIds :
       \E responses \in [DeezerIds -> FirstResponses \X RetryResponses] :
           call = [catalog_ids |-> DeezerIds, excluded |-> excluded,
                   processed |-> processed, responses |-> responses]
    /\ ret = None
    /\ Idle

\* lines 184-213
DeezerLoad ==
    /\ pc = "deezer_load"
    /\ LET ids_to_check == IdsToCheck(call.catalog_ids, call.excluded, call.processed)
       IN  /\ ret' = [excluded |-> call.excluded, processed |-> call.processed,
                      excluded_file |-> call.excluded, processed_file |-> call.processed,
                      retry_ids |-> {}, pending |-> ids_to_check, new_excluded |-> 0,
                      fetches |-> [d \in DeezerIds |-> 0]]
           /\ pc' = IF ids_to_check = {} THEN "deezer_done" ELSE "deezer_check"
    /\ UNCHANGED call
    /\ StayIdle

\* one task completes, in any order
DeezerComplete ==
    /\ pc = "deezer_check"
    /\ \E deezer_id \in ret.pending : ret' = CompleteTask(ret, call.responses, deezer_id)
    /\ UNCHANGED <<pc, call>>
    /\ StayIdle

\* line 261
DeezerSave ==
    /\ pc = "deezer_check"
    /\ ret.pending = {}
    /\ ret' = [ret EXCEPT !.processed_file = ret.processed]
    /\ pc' = "deezer_retry"
    /\ UNCHANGED call
    /\ StayIdle

DeezerRetry ==
    /\ pc = "deezer_retry"
    /\ ret' = RetryPass(ret, call.responses)
    /\ pc' = "deezer_done"
    /\ UNCHANGED call
    /\ StayIdle

NextDeezer == DeezerLoad \/ DeezerComplete \/ DeezerSave \/ DeezerRetry

SpecDeezer == InitDeezer /\ [][NextDeezer]_vars

----------------------------------------------------------------------------
(* Properties of the Cross-Work Deduplicator (checked under SpecCleanup) *)

CleanupReturned == pc \in {"call_recleanup", "cleanup_done"}

\* the works entering and leaving _filter_works_cleanup, in iteration order
WorksIn == MapWorks(works_after_wss)
WorksOut == MapWorks(works_after_cleanup)

NamesOut == {WorksOut[k].name : k \in DOMAIN WorksOut}

\* the works of a map pairwise share no track identifier
TracksDisjoint(flat) ==
    \A i, j \in DOMAIN flat :
        i # j => PartsTracks(flat[i].parts) \cap PartsTracks(flat[j].parts) = {}

\* C1: after _filter_works_cleanup, and in the final catalog, no track identifier
\* appears in the parts of two different works.
C1_TrackClaimUnique ==
    TracksDisjoint(WorksOut) /\ TracksDisjoint(MapWorks(final_works))

\* two works that shared a track identifier on entry both left the deduplicator
C1_Witness ==
    /\ CleanupReturned
    /\ \E i, j \in DOMAIN WorksIn :
          /\ i # j
          /\ PartsTracks(WorksIn[i].parts) \cap PartsTracks(WorksIn[j].parts) # {}
          /\ {WorksIn[i].name, WorksIn[j].name} \subseteq NamesOut

\* C2: _filter_works_cleanup applied to its own output returns it unchanged: the same
\* categories, works, parts and track identifiers, in the same order.
C2_Idempotent ==
    pc = "cleanup_done" => works_after_recleanup = works_after_cleanup

\* the first run changed its input and left something for the second run
C2_Witness ==
    /\ pc = "cleanup_done"
    /\ works_after_cleanup # works_after_wss
    /\ Len(WorksOut) >= 2

\* the works that are neither ambiguous nor a later occurrence of an identifier
Survivors ==
    {i \in DOMAIN WorksIn :
        /\ \A j \in DOMAIN WorksIn :
              WorksIn[j].gid = WorksIn[i].gid => WorksIn[j].composer = WorksIn[i].composer
        /\ \A j \in 1..(i - 1) : WorksIn[j].gid # WorksIn[i].gid}

SetMin(S) == CHOOSE x \in S : \A y \in S : x <= y

\* C4: every track identifier referenced by a work that is neither ambiguous nor a
\* discarded duplicate is assigned to the first such work in iteration order.
C4_FirstSurvivorOwns ==
    CleanupReturned =>
        \A t \in UNION {PartsTracks(WorksIn[i].parts) : i \in Survivors} :
            LET refs == {i \in Survivors : t \in PartsTracks(WorksIn[i].parts)}
            IN  /\ t \in DOMAIN deezer_to_work_gid
                /\ deezer_to_work_gid[t] = WorksIn[SetMin(refs)].gid

\* C5: the output holds no two works with the same identifier, and a work of the
\* output is the first occurrence of its identifier in processing order.
C5_FirstOccurrenceOnly ==
    CleanupReturned =>
        /\ \A k, l \in DOMAIN WorksOut : k # l => WorksOut[k].gid # WorksOut[l].gid
        /\ \A k \in DOMAIN WorksOut : \A i \in DOMAIN WorksIn :
              WorksIn[i].name = WorksOut[k].name =>
                  \A j \in 1..(i - 1) : WorksIn[j].gid # WorksIn[i].gid

\* an identifier occurred twice under one composer and its first occurrence is in the output
C5_Witness ==
    /\ CleanupReturned
    /\ \E i, j \in DOMAIN WorksIn :
          /\ i < j
          /\ WorksIn[i].gid = WorksIn[j].gid
          /\ i \in Survivors
          /\ WorksIn[i].name \in NamesOut

\* C6: works entering = works leaving + what the call adds to the three counters
\* works_dropped_multiple_composers, works_dropped_duplicates,
\* works_dropped_empty_after_deezer_dedup (self.stats is empty before the call).
C6_DropsAccounted ==
    pc = "call_recleanup" =>
        Len(WorksIn) = Len(WorksOut)
                       + stats["works_dropped_multiple_composers"]
                       + stats["works_dropped_duplicates"]
                       + stats["works_dropped_empty_after_deezer_dedup"]

----------------------------------------------------------------------------
(* Properties of process() (checked under Spec) *)

FinalList == MapWorks(final_works)
FinalGids == {FinalList[k].gid : k \in DOMAIN FinalList}
FinalComposerGids == {final_composers[i].gid : i \in DOMAIN final_composers}

\* the number of works of composer gid that left the deduplicator
SurvivingWorks(gid) == Cardinality({k \in DOMAIN WorksOut : WorksOut[k].composer = gid})

RootGids(c) == {c.works[j].gid : j \in DOMAIN c.works}

\* C3 as stated: a work identifier that is a root work of two composers with different
\* identifiers in the input forest is in no work of the final output.
C3_SharedRootDropped ==
    pc = "returned" =>
        \A i, j \in DOMAIN composers :
            composers[i].gid # composers[j].gid =>
                RootGids(composers[i]) \cap RootGids(composers[j]) \cap FinalGids = {}

\* C3 amended: a work identifier that enters the deduplicator under two different
\* composer identifiers is in no work that leaves the deduplicator, and so in no work
\* of the final output.
C3_AmbiguousDropped ==
    pc = "returned" =>
        \A i, j \in DOMAIN WorksIn :
            (WorksIn[i].gid = WorksIn[j].gid /\ WorksIn[i].composer # WorksIn[j].composer)
                => /\ WorksIn[i].gid \notin {WorksOut[k].gid : k \in DOMAIN WorksOut}
                   /\ WorksIn[i].gid \notin FinalGids

\* an identifier entered the deduplicator under two composers while another work of one
\* of them left it
C3_Witness ==
    /\ pc = "returned"
    /\ \E i, j \in DOMAIN WorksIn :
          /\ WorksIn[i].gid = WorksIn[j].gid
          /\ WorksIn[i].composer # WorksIn[j].composer
          /\ \E k \in DOMAIN WorksOut : WorksOut[k].composer = WorksIn[i].composer

\* C7: a composer is in the final composer list only if at least MIN_WORKS_PER_COMPOSER
\* of its works survived deduplication and its name is not in EXCLUDED_COMPOSERS.
C7_ComposerGate ==
    pc \in {"sync", "returned"} =>
        \A i \in DOMAIN final_composers :
            /\ SurvivingWorks(final_composers[i].gid) >= MIN_WORKS_PER_COMPOSER
            /\ final_composers[i].name \notin EXCLUDED_COMPOSERS

\* a composer with exactly MIN_WORKS_PER_COMPOSER - 1 surviving works was gated out
\* while another composer was retained
C7_Witness ==
    /\ pc = "returned"
    /\ final_composers # <<>>
    /\ \E i \in DOMAIN composers_by_birth_year :
          /\ SurvivingWorks(composers_by_birth_year[i].gid) = MIN_WORKS_PER_COMPOSER - 1
          /\ composers_by_birth_year[i].gid \notin FinalComposerGids

\* C8: composers_dropped_min_works is the number of composers with at least one
\* surviving work and fewer than MIN_WORKS_PER_COMPOSER.
C8_DroppedMinWorksExact ==
    pc \in {"sync", "returned"} =>
        stats["composers_dropped_min_works"] =
            Cardinality({i \in DOMAIN composers_by_birth_year :
                            /\ SurvivingWorks(composers_by_birth_year[i].gid) > 0
                            /\ SurvivingWorks(composers_by_birth_year[i].gid)
                                   < MIN_WORKS_PER_COMPOSER})

\* C9: every work of the returned catalog belongs to a composer of the final composer
\* list, and no category of the catalog is empty.
C9_WorksSynced ==
    pc = "returned" =>
        /\ \A k \in DOMAIN FinalList : FinalList[k].composer \in FinalComposerGids
        /\ \A e \in DOMAIN final_works : final_works[e].works # <<>>

\* a work that left the deduplicator was removed with its composer, others were kept
C9_Witness ==
    /\ pc = "returned"
    /\ FinalList # <<>>
    /\ \E k \in DOMAIN WorksOut : WorksOut[k].composer \notin FinalComposerGids

\* C10: no work of the final catalog has a stored score below MINIMUM_WSS or an
\* identifier in EXCLUDED_WORKS, overridden scores included.
C10_ScoreFloor ==
    pc = "returned" =>
        \A k \in DOMAIN FinalList :
            FinalList[k].score >= MINIMUM_WSS /\ FinalList[k].gid \notin EXCLUDED_WORKS

\* the catalog holds a work with an overridden score while a candidate was below the floor
C10_Witness ==
    /\ pc = "returned"
    /\ \E k \in DOMAIN FinalList : FinalList[k].gid \in DOMAIN WSS_OVERRIDES
    /\ \E k \in DOMAIN work_candidates : work_candidates[k].score < MINIMUM_WSS

\* the parts _generate_work_candidates would keep for root_work if the dynamic threshold
\* were taken at the score wss
PartsKeptAt(root_work, wss) ==
    LET leaf_parts == FilterAndFlattenTree(root_work).leafs
        pss_values == [i \in DOMAIN leaf_parts |-> Log1p(Len(leaf_parts[i].recordings))]
    IN  IF leaf_parts = <<>> THEN <<>>
        ELSE SelectSeq(PotentialParts(leaf_parts, MaxSeq(pss_values)),
                       LAMBDA p : MeetsThreshold(p.score, DynamicPartScoreThreshold(wss)))

CandidatesGenerated == pc \notin {"birth_year", "candidates"}

\* C11: a work whose identifier is in WSS_OVERRIDES is thresholded with the overridden
\* score: its candidate keeps the parts that meet the dynamic threshold of the override,
\* stores the override as its score, and meets the MINIMUM_WSS floor iff the override does.
C11_OverrideBeforeThresholds ==
    CandidatesGenerated =>
        \A i \in DOMAIN composers_by_birth_year :
            \A j \in DOMAIN composers_by_birth_year[i].works :
                LET c == composers_by_birth_year[i]
                    r == c.works[j]
                IN  r.gid \in DOMAIN WSS_OVERRIDES =>
                      LET kept == PartsKeptAt(r, WSS_OVERRIDES[r.gid])
                      IN  kept # <<>> =>
                            \E k \in DOMAIN work_candidates :
                                /\ work_candidates[k].gid = r.gid
                                /\ work_candidates[k].composer = c.gid
                                /\ work_candidates[k].score = RoundDiv(WSS_OVERRIDES[r.gid], 100)
                                /\ work_candidates[k].parts = kept

----------------------------------------------------------------------------
(* Properties of the Dynamic Part Filter (checked under SpecThreshold) *)

\* a returned threshold in units of 1 / (WSS_UPPER_BOUND - WSS_LOWER_BOUND) score points
Scaled(t) == IF t.den = 1 THEN t.num * (WSS_UPPER_BOUND - WSS_LOWER_BOUND) ELSE t.num
ScaledScore(points) == points * (WSS_UPPER_BOUND - WSS_LOWER_BOUND)

\* C12: the threshold is PART_SCORE_AT_LOWER_WSS at or below WSS_LOWER_BOUND,
\* PART_SCORE_AT_UPPER_WSS at or above WSS_UPPER_BOUND, linear in between, never
\* increasing in the score, and always between the two anchor scores.
C12_ThresholdClampedMonotone ==
    pc = "threshold_done" =>
        LET w1 == call[1]
            w2 == call[2]
            t1 == Scaled(ret[1])
            t2 == Scaled(ret[2])
            between(w) == WSS_LOWER_BOUND <= w /\ w <= WSS_UPPER_BOUND
        IN  /\ w1 <= WSS_LOWER_BOUND => t1 = ScaledScore(PART_SCORE_AT_LOWER_WSS)
            /\ w1 >= WSS_UPPER_BOUND => t1 = ScaledScore(PART_SCORE_AT_UPPER_WSS)
            /\ (between(w1) /\ between(w2)) =>
                   t1 - t2 = (w2 - w1) * (PART_SCORE_AT_LOWER_WSS - PART_SCORE_AT_UPPER_WSS)
            /\ w1 < w2 => t1 >= t2
            /\ ScaledScore(PART_SCORE_AT_UPPER_WSS) <= t1
            /\ t1 <= ScaledScore(PART_SCORE_AT_LOWER_WSS)

\* one score below the lower anchor and one strictly between the anchors
C12_Witness ==
    /\ pc = "threshold_done"
    /\ call[1] < WSS_LOWER_BOUND
    /\ WSS_LOWER_BOUND < call[2] /\ call[2] < WSS_UPPER_BOUND
    /\ Scaled(ret[1]) > Scaled(ret[2])

----------------------------------------------------------------------------
(* Properties of the Popularity Scorer (checked under SpecWss) *)

----------------------------------------------------------------------------
(* Properties of the Tree Loader and the Tree Reducer (checked under SpecTree) *)

\* the nodes of a work tree, parents before children, children left to right
RECURSIVE NodesOf(_)
NodesOf(work) == <<work>> \o Concat([i \in DOMAIN work.subworks |-> NodesOf(work.subworks[i])])

IsLeaf(work) == work.subworks = <<>>
HasEnoughRecordings(work) == Len(work.recordings) >= MIN_RECORDINGS_PER_PART
LeavesOf(work) == SelectSeq(NodesOf(work), IsLeaf)

\* some node strictly below work has enough recordings of its own
EnoughBelow(work) ==
    \E k \in 2..Len(NodesOf(work)) : HasEnoughRecordings(NodesOf(work)[k])

\* C14: _filter_and_flatten_tree returns, in tree order, the leaves with at least
\* MIN_RECORDINGS_PER_PART recordings, and an internal node with that many recordings of
\* its own in place of a subtree that yields nothing; it counts every leaf below the
\* minimum; when every leaf meets the minimum the result is the leaves in order.
C14_FlattenValidParts ==
    pc = "tree_done" =>
        /\ ret.leafs = SelectSeq(NodesOf(ret.work),
                                 LAMBDA n : HasEnoughRecordings(n) /\ ~ EnoughBelow(n))
        /\ ret.dropped = Len(SelectSeq(LeavesOf(ret.work),
                                       LAMBDA n : ~ HasEnoughRecordings(n)))
        /\ (\A k \in DOMAIN LeavesOf(ret.work) : HasEnoughRecordings(LeavesOf(ret.work)[k]))
               => ret.leafs = LeavesOf(ret.work)

\* a tree in which one subtree yields a leaf and another only its promoted root
C14_Witness ==
    /\ pc = "tree_done"
    /\ \E k \in DOMAIN ret.leafs : IsLeaf(ret.leafs[k])
    /\ \E k \in DOMAIN ret.leafs : ~ IsLeaf(ret.leafs[k])
    /\ ret.dropped > 0

Counted == pc \in {"call_flatten", "tree_done"}

RecordingsOf(ns) == SumSeq([k \in DOMAIN ns |-> Len(ns[k].recordings)])

\* C15: after _calculate_recursive_counts(root), root.total_subworks_count is the
\* number of nodes of the tree minus one.
C15_SubworksCountIsDescendants ==
    Counted => ret.work.total_subworks_count = Len(NodesOf(ret.work)) - 1

\* C16 as stated: after _calculate_recursive_counts(root), root.total_recordings_count
\* is the sum of the recording counts of the leaf nodes.
C16_RecordingsCountIsLeafSum ==
    Counted => ret.work.total_recordings_count = RecordingsOf(LeavesOf(ret.work))

\* C16 amended: root.total_recordings_count is the sum of the recording counts of all
\* nodes, the internal nodes' own recordings included; it is the sum over the leaves
\* when no internal node has recordings of its own.
C16_RecordingsCountIsNodeSum ==
    Counted =>
        /\ ret.work.total_recordings_count = RecordingsOf(NodesOf(ret.work))
        /\ (\A k \in DOMAIN NodesOf(ret.work) :
                IsLeaf(NodesOf(ret.work)[k]) \/ NodesOf(ret.work)[k].recordings = <<>>)
               => ret.work.total_recordings_count = RecordingsOf(LeavesOf(ret.work))

\* an internal node below the root and a leaf both carry recordings
C16_Witness ==
    /\ Counted
    /\ \E k \in 2..Len(NodesOf(ret.work)) :
          ~ IsLeaf(NodesOf(ret.work)[k]) /\ NodesOf(ret.work)[k].recordings # <<>>
    /\ RecordingsOf(LeavesOf(ret.work)) > 0
    /\ ret.work.total_recordings_count > RecordingsOf(LeavesOf(ret.work))

----------------------------------------------------------------------------
(* Properties of the Tree Loader (checked under SpecParse) *)

\* a raw work declares a type when its dict has a "type" entry that is not null
DeclaresType(work_dict) == work_dict.type.present /\ work_dict.type.val # None

\* every node of parsed has its own declared type, or else inherited, the resolved type
\* of its nearest declaring ancestor
RECURSIVE TypesResolved(_, _, _)
TypesResolved(work_dict, parsed, inherited) ==
    LET expected == IF DeclaresType(work_dict) THEN work_dict.type.val ELSE inherited
    IN  /\ parsed.type = expected
        /\ \A i \in DOMAIN work_dict.subworks :
               TypesResolved(work_dict.subworks[i], parsed.subworks[i], expected)

\* C17: after _parse_work_tree a node with no declared type has the resolved type of
\* its nearest ancestor that declares one, or "Unknown" if none does, and a node with
\* a declared type keeps it.
C17_TypeInheritance ==
    pc # "call_parse" => TypesResolved(call, ret.work, Some("Unknown"))

----------------------------------------------------------------------------
(* Properties of the Taxonomy Classifier (checked under SpecClassify) *)

Categories == {"vocal", "opera", "ballet", "orchestral", "concerto", "chamber", "piano", "other"}

\* the rules of KEYWORD_RULES whose pattern matches name, as indexes
MatchingRules(name) == {i \in DOMAIN KEYWORD_RULES : name \in KEYWORD_RULES[i].matches}

\* the five steps in their order: [applies, category]
StepsFor(work, composer_gid) ==
    << [applies |-> composer_gid = CHOPIN_GID /\ work.type = Some("Unknown"),
        category |-> "piano"],
       [applies |-> work.name = "Piano Sonata No. 14" /\ work.type = Some("Sonata"),
        category |-> "piano"],
       [applies |-> \E t \in DOMAIN TYPE_MAPPING :
                       work.type = Some(t) /\ TYPE_MAPPING[t] # "other",
        category |-> IF work.type # None /\ work.type[1] \in DOMAIN TYPE_MAPPING
                     THEN TYPE_MAPPING[work.type[1]] ELSE "other"],
       [applies |-> MatchingRules(work.name) # {},
        category |-> IF MatchingRules(work.name) # {}
                     THEN KEYWORD_RULES[SetMin(MatchingRules(work.name))].category
                     ELSE "other"],
       [applies |-> TRUE, category |-> "other"] >>

FirstApplicable(steps) == SetMin({i \in DOMAIN steps : steps[i].applies})

\* C18: _transform_type returns the category of the first applicable step of the five,
\* a work named "Piano Sonata No. 14" of raw type "Sonata" is piano, and the result
\* is one of the eight categories.
C18_FirstApplicableStep ==
    pc = "transform_type_done" =>
        LET steps == StepsFor(call.work, call.composer_gid)
        IN  /\ ret = Some(steps[FirstApplicable(steps)].category)
            /\ ret[1] \in Categories
            /\ (call.work.name = "Piano Sonata No. 14" /\ call.work.type = Some("Sonata"))
                   => ret = Some("piano")

\* a call where the type mapping (step 3) wins over a keyword rule of another category
C18_Witness ==
    /\ pc = "transform_type_done"
    /\ LET steps == StepsFor(call.work, call.composer_gid)
       IN  /\ FirstApplicable(steps) = 3
           /\ steps[4].applies
           /\ steps[4].category # steps[3].category
           /\ ret = Some(steps[3].category)

----------------------------------------------------------------------------
(* Properties of the unresolved-types log (checked under Spec) *)

LogEntries == IF unresolved_log = None THEN {} ELSE unresolved_log[1]
FinalOther == SeqToSet(MapGet(final_works, "other"))

\* the raw types of the input root works that became the final work w
RawTypesOf(w) ==
    UNION {{rw.type : rw \in {x \in SeqToSet(c.works) : x.gid = w.gid}} :
              c \in {x \in SeqToSet(composers) : x.gid = w.composer}}

\* C19: the log has an entry for a name only if a work of that name is in the final
\* "other" bucket, has an entry for every work of that bucket, and each entry reports
\* the name and the raw type of a work that is in that bucket.
C19_LogReportsFinalOther ==
    pc = "returned" =>
        /\ \A e \in LogEntries : \E w \in FinalOther : w.name = e.name
        /\ \A w \in FinalOther : \E e \in LogEntries : e.name = w.name
        /\ \A e \in LogEntries : \E w \in FinalOther :
               w.name = e.name /\ e.type \in RawTypesOf(w)

----------------------------------------------------------------------------
(* Properties of the order of a category list (checked under Spec) *)

\* the place of a final work in the input: <<index of its composer, index of its
\* first root work of that gid>>
InputPlace(w) ==
    LET ci == SetMin({i \in DOMAIN composers : composers[i].gid = w.composer})
    IN  <<ci, SetMin({j \in DOMAIN composers[ci].works : composers[ci].works[j].gid = w.gid})>>

PlacedBefore(a, b) == a[1] < b[1] \/ (a[1] = b[1] /\ a[2] < b[2])

WorkKeys(works) == [i \in DOMAIN works |-> <<works[i].gid, works[i].composer>>]

\* s can be obtained from t by deleting elements
RECURSIVE IsSubsequence(_, _)
IsSubsequence(s, t) ==
    IF s = <<>> THEN TRUE
    ELSE IF t = <<>> THEN FALSE
    ELSE IF Head(s) = Head(t) THEN IsSubsequence(Tail(s), Tail(t))
    ELSE IsSubsequence(s, Tail(t))

\* C20: in the final catalog every category list is in non-increasing score order,
\* works of equal score are in input order (composer, then root work), and the list
\* is the list the WSS filter sorted with works deleted by the deduplicator and the
\* composer gate, never reordered.
C20_SortedStableNeverReordered ==
    pc = "returned" =>
        \A k \in DOMAIN final_works :
            LET works == final_works[k].works
                cleaned == MapGet(works_after_cleanup, final_works[k].key)
                sorted == MapGet(works_after_wss, final_works[k].key)
            IN  /\ \A i, j \in DOMAIN works :
                       i < j => /\ works[i].score >= works[j].score
                                /\ works[i].score = works[j].score
                                      => PlacedBefore(InputPlace(works[i]), InputPlace(works[j]))
                /\ IsSubsequence(WorkKeys(works), WorkKeys(cleaned))
                /\ IsSubsequence(WorkKeys(cleaned), WorkKeys(sorted))

\* a final category list that holds two works of equal score, the WSS filter having
\* dropped or moved another work of the input
C20_Witness ==
    /\ pc = "returned"
    /\ \E k \in DOMAIN final_works :
           \E i, j \in DOMAIN final_works[k].works :
               i < j /\ final_works[k].works[i].score = final_works[k].works[j].score
    /\ stats["total_root_works_considered"] > 2

----------------------------------------------------------------------------
(* Properties of the Track Selector (checked under SpecSelect) *)

\* the track identifiers of the recordings that have a usable one
UsableIds(recordings) ==
    [i \in 1..Len(SelectSeq(recordings, LAMBDA r : r.deezerId # None /\ r.deezerId[1] \notin EXCLUDED_DEEZER_IDS)) |->
        SelectSeq(recordings, LAMBDA r : r.deezerId # None /\ r.deezerId[1] \notin EXCLUDED_DEEZER_IDS)[i].deezerId[1]]

\* C21: _select_deezer_ids returns pairwise distinct track identifiers, each the usable
\* (non-null, non-excluded) identifier of a recording of the list, at most
\* min(5, ceil(n/2)) of them for n usable recordings, and none only when n = 0.
C21_SelectedIds ==
    pc = "select_done" =>
        LET n == Len(UsableIds(call))
        IN  /\ \A i, j \in DOMAIN ret : i # j => ret[i] # ret[j]
            /\ \A i \in DOMAIN ret : ret[i] \in SeqToSet(UsableIds(call))
            /\ Len(ret) <= 5
            /\ 2 * Len(ret) <= n + 1
            /\ (ret # <<>>) <=> (n >= 1)

\* a call that returns five identifiers from a list with repeated, null and excluded ones
C21_Witness ==
    /\ pc = "select_done"
    /\ Len(ret) = 5
    /\ \E i, j \in DOMAIN call : i # j /\ call[i].deezerId = call[j].deezerId
                                      /\ call[i].deezerId[1] \in SeqToSet(ret)
    /\ \E i \in DOMAIN call : call[i].deezerId = None
    /\ \E i \in DOMAIN call : call[i].deezerId = Some(99)

----------------------------------------------------------------------------
(* Properties of the Significance Scorer (checked under SpecCandidates) *)

\* the sub-works of the one root work of the call
LeavesOfCall == call[1].works[1].subworks

AllUsable(recordings) ==
    \A i \in DOMAIN recordings :
        recordings[i].deezerId # None /\ recordings[i].deezerId[1] \notin EXCLUDED_DEEZER_IDS

\* the root work has two leaf parts, of 5 and of 50 recordings, all with usable tracks
IsExample ==
    /\ Len(LeavesOfCall) = 2
    /\ {Len(LeavesOfCall[i].recordings) : i \in 1..2} = {5, 50}
    /\ \A i \in 1..2 : AllUsable(LeavesOfCall[i].recordings)

\* C22: for a root work with two leaf parts of 5 and 50 recordings, all usable,
\* candidate generation produces one work with exactly one part, the 50-recording
\* part with relative score 100; the other part is dropped by the dynamic threshold.
C22_ExampleKeepsLargePart ==
    (pc = "generate_done" /\ IsExample) =>
        /\ Len(ret) = 1
        /\ Len(ret[1].parts) = 1
        /\ \E i \in 1..2 : /\ Len(LeavesOfCall[i].recordings) = 50
                            /\ ret[1].parts[1].name = LeavesOfCall[i].name
        /\ ret[1].parts[1].score = 10000
        /\ stats["parts_dropped_by_dynamic_score"] = 1
        /\ stats["parts_dropped_no_deezerid"] = 0

C22_Witness == pc = "generate_done" /\ IsExample /\ ret # <<>>

----------------------------------------------------------------------------
(* Properties of main() (checked under SpecMain) *)

\* the processor exists from its construction on: process() is running or has returned
ProcessorConstructed == pc \notin {"main_open", "main_returned"} \/ Len(ret.printed) > 1

\* C23: when musicbrainz.json is absent main() stops after one error message: the
\* processor is never constructed and the catalog, the report and the
\* unresolved-types log are left as they were.
C23_MissingInputStops ==
    call.input = None =>
        /\ ~ProcessorConstructed
        /\ ret.catalog = call.catalog
        /\ ret.report = call.report
        /\ unresolved_log = None
        /\ pc = "main_returned" => ret.printed = <<"input not found">>

\* the run has ended on a missing input, with output files of an earlier run present
C23_Witness ==
    /\ pc = "main_returned"
    /\ call.input = None
    /\ call.catalog = "old" /\ call.report = "old" /\ call.log = "old"

----------------------------------------------------------------------------
(* Properties of the availability checker (checked under SpecDeezer) *)

\* the ids the run requested whose first answer was an error other than "DataException"
FirstFailed ==
    {d \in IdsToCheck(call.catalog_ids, call.excluded, call.processed) :
        call.responses[d][1] = "other error"}

\* C24: in normal mode an id whose first response carries an error other than
\* "DataException" is fetched a second time in the retry pass, and excluded if the
\* retry fails too; it is not left marked as processed without a retry.
C24_RetriedOnce ==
    pc = "deezer_done" =>
        \A d \in FirstFailed :
            /\ ret.fetches[d] = 2
            /\ call.responses[d][2] # "preview" => d \in ret.excluded_file

----------------------------------------------------------------------------
(* Properties of the deduplication within one work (checked under SpecCleanupParts) *)

\* the work "w1" before and after the deduplicator (<<>> when it was dropped)
WorkBefore == CHOOSE w \in SeqToSet(MapGet(works_after_wss, "piano")) : w.gid = "w1"
WorkAfter == SelectSeq(MapGet(works_after_cleanup, "piano"), LAMBDA w : w.gid = "w1")

\* the tracks claimed by a work that comes first
ClaimedBefore ==
    UNION {UNION {SeqToSet(w.parts[i].deezer) : i \in DOMAIN w.parts} :
              w \in {x \in SeqToSet(MapGet(works_after_wss, "piano")) : x.gid = "w0"}}

\* part i of the work after the strip of the tracks it does not own
Stripped(i) == SeqToSet(WorkBefore.parts[i].deezer) \ ClaimedBefore

\* the parts that are left after the strip, and those of them that survive
AfterStrip == {i \in DOMAIN WorkBefore.parts : Stripped(i) # {}}
Surviving ==
    {i \in AfterStrip : WorkAfter # <<>> /\
        \E k \in DOMAIN WorkAfter[1].parts : WorkAfter[1].parts[k].name = WorkBefore.parts[i].name}

SurvivorsDisjoint ==
    \A i, j \in Surviving : i # j => Stripped(i) \cap Stripped(j) = {}

\* C25 as stated: of any two parts of a work whose stripped track sets overlap the
\* later is dropped and counted and the earlier is kept (unless it is itself the
\* later part of such a pair), and the surviving parts have pairwise disjoint
\* track sets.
C25_LaterOfAnyOverlappingPairDropped ==
    pc # "call_cleanup" =>
        /\ \A i, j \in AfterStrip :
               (i < j /\ Stripped(i) \cap Stripped(j) # {})
                   => /\ j \notin Surviving
                      /\ (\A h \in AfterStrip : h < i => Stripped(h) \cap Stripped(i) = {})
                            => i \in Surviving
        /\ stats["parts_dropped_duplicate_deezer"] = Cardinality(AfterStrip \ Surviving)
        /\ SurvivorsDisjoint

\* C25 amended: a part is dropped, and counted in parts_dropped_duplicate_deezer,
\* exactly when its stripped track set overlaps that of an earlier part that
\* survives; the surviving parts have pairwise disjoint track sets.
C25_DroppedIffOverlapsEarlierSurvivor ==
    pc # "call_cleanup" =>
        /\ \A j \in AfterStrip :
               j \notin Surviving
                   <=> \E i \in Surviving : i < j /\ Stripped(i) \cap Stripped(j) # {}
        /\ stats["parts_dropped_duplicate_deezer"] = Cardinality(AfterStrip \ Surviving)
        /\ SurvivorsDisjoint

\* a part that overlaps only an earlier dropped part survives, after a strip
C25_Witness ==
    /\ pc = "cleanup_done"
    /\ ClaimedBefore # {}
    /\ \E i, j \in AfterStrip :
           /\ i < j
           /\ Stripped(i) \cap Stripped(j) # {}
           /\ i \notin Surviving
           /\ j \in Surviving
    /\ \E i \in AfterStrip : Stripped(i) # SeqToSet(WorkBefore.parts[i].deezer)

----------------------------------------------------------------------------
(* Shape of the final catalog (checked under Spec) *)

\* the candidate a final work was made from
CandidateOf(w) ==
    CHOOSE c \in SeqToSet(work_candidates) : c.gid = w.gid /\ c.composer = w.composer

\* C26: every final work has at least one part; every final part has between 1 and 5
\* track identifiers, all of them claimed by its own work; every part's relative
\* score lies in [0, 100].
C26_FinalShape ==
    pc = "returned" =>
        \A w \in SeqToSet(FinalList) :
            /\ w.parts # <<>>
            /\ \A i \in DOMAIN w.parts :
                   /\ Len(w.parts[i].deezer) >= 1
                   /\ Len(w.parts[i].deezer) <= 5
                   /\ \A k \in DOMAIN w.parts[i].deezer :
                          /\ w.parts[i].deezer[k] \in DOMAIN deezer_to_work_gid
                          /\ deezer_to_work_gid[w.parts[i].deezer[k]] = w.gid
                   /\ w.parts[i].score >= 0
                   /\ w.parts[i].score <= 10000

\* a final work with a part that lost a track to another work
C26_Witness ==
    /\ pc = "returned"
    /\ \E w \in SeqToSet(FinalList) :
           \E i \in DOMAIN w.parts : \E j \in DOMAIN CandidateOf(w).parts :
               /\ CandidateOf(w).parts[j].name = w.parts[i].name
               /\ Len(w.parts[i].deezer) < Len(CandidateOf(w).parts[j].deezer)

----------------------------------------------------------------------------
(* Properties of the birth-year filter (checked under Spec) *)

BornBefore(c, year) == c.birth_year # None /\ c.birth_year[1] < year

PassedOn(c) == \E i \in DOMAIN composers_by_birth_year : composers_by_birth_year[i].gid = c.gid

\* C27: the birth-year filter removes a composer if and only if the composer was born
\* before MIN_BIRTH_YEAR, passes every other composer on, and
\* composers_dropped_birth_year is the number of removed composers.
C27_RemovedIffBornBefore ==
    pc = "candidates" =>
        /\ \A c \in SeqToSet(composers) : ~PassedOn(c) <=> BornBefore(c, MIN_BIRTH_YEAR)
        /\ stats["composers_dropped_birth_year"]
               = Cardinality({i \in DOMAIN composers : ~PassedOn(composers[i])})

----------------------------------------------------------------------------
(* The resolved type is never null (checked under SpecParse) *)

\* C28: after the Tree Loader every work node, root or sub-work, has a non-null
\* resolved type, and a root whose type is missing or null gets "Unknown".
C28_TypeNeverNull ==
    pc # "call_parse" =>
        /\ \A k \in DOMAIN NodesOf(ret.work) : NodesOf(ret.work)[k].type # None
        /\ ~DeclaresType(call) => ret.work.type = Some("Unknown")

----------------------------------------------------------------------------
(* The most popular part passes the dynamic filter (checked under SpecCandidates) *)

\* the leaves of the call's root work that candidate generation scores
ScoredLeaves == FilterAndFlattenTree(call[1].works[1]).leafs

\* the scored leaves whose popularity is the maximum of the work
MaxPopularityLeaves ==
    {i \in DOMAIN ScoredLeaves :
        \A j \in DOMAIN ScoredLeaves :
            Log1p(Len(ScoredLeaves[j].recordings)) <= Log1p(Len(ScoredLeaves[i].recordings))}

\* at least one track identifier of the part can be selected
Selectable(part) == UsableIds(part.recordings) # <<>>

\* C29: every flattened part has popularity > 0; a part of maximum popularity with a
\* selectable track is kept, with relative score 100; and the work is counted in
\* works_dropped_became_empty only if no part of maximum popularity has a selectable track.
C29_MostPopularPartPasses ==
    pc = "generate_done" =>
        /\ \A i \in DOMAIN ScoredLeaves : Log1p(Len(ScoredLeaves[i].recordings)) > 0
        /\ \A i \in MaxPopularityLeaves :
               Selectable(ScoredLeaves[i]) =>
                   /\ Len(ret) = 1
                   /\ \E k \in DOMAIN ret[1].parts :
                          /\ ret[1].parts[k].name = ScoredLeaves[i].name
                          /\ ret[1].parts[k].score = 10000
        /\ stats["works_dropped_became_empty"] > 0 =>
               \A i \in MaxPopularityLeaves : ~ Selectable(ScoredLeaves[i])

\* the most popular part is kept while a less popular part with a selectable track
\* is dropped by the dynamic threshold
C29_Witness ==
    /\ pc = "generate_done"
    /\ \E i \in MaxPopularityLeaves : Selectable(ScoredLeaves[i])
    /\ Len(ret) = 1
    /\ stats["parts_dropped_by_dynamic_score"] > 0
    /\ stats["parts_dropped_no_deezerid"] > 0

----------------------------------------------------------------------------
(* The returned catalog respects the composer gate (checked under Spec) *)

\* the number of works of composer gid in the returned work map
FinalWorksOf(gid) == Cardinality({k \in DOMAIN FinalList : FinalList[k].composer = gid})

\* C30: in the catalog returned by process() every composer of the final composer list
\* owns at least MIN_WORKS_PER_COMPOSER works of the final work map; synchronisation
\* removes none of the works of a retained composer.
C30_FinalComposersOwnMinimum ==
    pc = "returned" =>
        \A i \in DOMAIN final_composers :
            /\ FinalWorksOf(final_composers[i].gid) >= MIN_WORKS_PER_COMPOSER
            /\ FinalWorksOf(final_composers[i].gid) = SurvivingWorks(final_composers[i].gid)

\* synchronisation removed works while a retained composer owns exactly the minimum
C30_Witness ==
    /\ pc = "returned"
    /\ Len(FinalList) < Len(WorksOut)
    /\ \E i \in DOMAIN final_composers :
          FinalWorksOf(final_composers[i].gid) = MIN_WORKS_PER_COMPOSER

====
